---- MODULE Spec2Model ----
(***************************************************************************)
(* The derived-transit-event engine of calendar-automaton:                *)
(* calculateTransitEvents (eventProcessor.ts) and the route-oracle client  *)
(* getTransitTime / getWalkingTime (transitCalculator.ts).                 *)
(*                                                                         *)
(* Specifications.                                                         *)
(*  - Spec: one run of calculateTransitEvents, step by step.               *)
(*  - SpecRerun: a run, and a second run on the events with its legs.      *)
(*  - SpecCall: one call of callRoutesApi, from the request to the body    *)
(*    of the response, with the timer of its timeout.                      *)
(*  - SpecApply: one application of getTransitTime, isValidTripDuration,   *)
(*    overlapsExistingTransit, shouldSkipEvent, insertTransitEvents,       *)
(*    groupEventsByDay or detectTripDates to arguments at the boundaries   *)
(*    of their cases.                                                      *)
(*  - SpecBlank: a run on a calendar that may hold an event whose location *)
(*    is empty once trimmed.                                               *)
(*                                                                         *)
(* Representation.                                                         *)
(*  - A JavaScript string is a tuple of one-character strings, so that     *)
(*    toLowerCase, trim, includes and split(',') are computed and not      *)
(*    assumed.  The empty tuple is the empty string, which JavaScript      *)
(*    treats like a missing (undefined) string in every test the engine    *)
(*    makes (!event.location, summary || "(untitled)").                    *)
(*  - An optional value is <<>> (absent) or <<v>> (present).               *)
(*  - A date string YYYY-MM-DD is its day number: the order of the strings *)
(*    is the order of the numbers.  An ISO date-time string is the record  *)
(*    [date, hour, minute] of its local fields; every string carries the   *)
(*    same UTC offset.  A Date is an instant counted in minutes, so        *)
(*    MILLISECONDS_PER_MINUTE is the unit.                                 *)
(***************************************************************************)
EXTENDS Integers, Sequences, FiniteSets, TLC

VARIABLES
    events,                 \* the CalendarEvent[] handed to calculateTransitEvents
    settings,               \* the UserSettings of the run
    today,                  \* todayStr, the date of the run
    pc,                     \* position in calculateTransitEvents
    byDay,                  \* groupEventsByDay(events)
    sortedDates,            \* Object.keys(byDay).sort()
    tripDates,              \* the trip-date set of the run
    dateIdx,                \* index of dateStr in sortedDates
    eventIdx,               \* index of event in dayEvents
    previousLocation,       \* per-day state
    previousLocationName,   \* per-day state
    previousEventEnd,       \* per-day state: <<>> (null) or <<instant>>
    transitEvents,          \* the output list
    legGaps,                \* history: for each leg of transitEvents, its gap
    step,                   \* history: what the last step did
    exchanges,              \* history: the oracle requests of the last step, with their answers
    progress,               \* the onProgress messages of the last step
    returnAttempts,         \* history: return-home attempts of the current day
    offNominal,             \* history: gaps of this run whose oracle answers were not the nominal ones
    run,                    \* 1, or 2 once the engine is run again on its own output
    firstRun,               \* history: the gaps that received a leg in run 1
    errorGaps,              \* history: the gaps of this run whose route query raised a RoutesApiError
    call,                   \* one call of callRoutesApi, followed step by step
    applied                 \* one application of a function of the engine: its arguments and what it returned

vars == << events, settings, today, pc, byDay, sortedDates, tripDates, dateIdx,
           eventIdx, previousLocation, previousLocationName, previousEventEnd,
           transitEvents, legGaps, step, exchanges, progress, returnAttempts,
           offNominal, run, firstRun, errorGaps, call, applied >>

----------------------------------------------------------------------------
\* Bounds of the model

\* longest event list handed to the engine
MaxEvents == 3

\* gaps per run whose oracle answers may differ from the nominal table
MaxOffNominal == 1

\* longest event list of a first run whose legs are fed back into a second run
MaxRerunEvents == 2

\* longest event list of a run on a calendar with a blank location
MaxBlankRunEvents == 2

\* longest list of legs handed to the event sink
MaxBatch == 3

\* longest event list handed to groupEventsByDay on its own
MaxGrouped == 3

\* longest event list handed to detectTripDates on its own
MaxTripEvents == 2

----------------------------------------------------------------------------
\* config.ts

MIN_TRIP_MINUTES == 4
SHORT_TRIP_THRESHOLD_MINUTES == 10
MAX_TRANSIT_MINUTES == 180
MAX_WALKABLE_MINUTES == 15
TRANSIT_FALLBACK_THRESHOLD == 80
SECONDS_PER_MINUTE == 60

VIDEO_CALL_KEYWORDS ==
    << <<"z","o","o","m",".","u","s">>,
       <<"m","e","e","t",".","g","o","o","g","l","e">>,
       <<"t","e","a","m","s",".","m","i","c","r","o","s","o","f","t">>,
       <<"w","e","b","e","x">> >>

FLIGHT_KEYWORDS ==
    << <<"f","l","i","g","h","t"," ","t","o">>,
       <<"f","l","i","g","h","t"," ","f","r","o","m">>,
       <<"u","a"," ">>,
       <<"a","a"," ">>,
       <<"d","l"," ">>,
       <<"b","6"," ">>,
       <<"u","n","i","t","e","d">>,
       <<"a","m","e","r","i","c","a","n">>,
       <<"d","e","l","t","a">>,
       <<"j","e","t","b","l","u","e">>,
       <<"s","o","u","t","h","w","e","s","t">> >>

STAY_KEYWORDS ==
    << <<"s","t","a","y",":">>,
       <<"s","t","a","y"," ","a","t">>,
       <<"h","o","t","e","l">>,
       <<"a","i","r","b","n","b">>,
       <<"v","r","b","o">>,
       <<"a","c","c","o","m","m","o","d","a","t","i","o","n">> >>

DEFAULT_HOME_AIRPORTS ==
    << <<"e","w","r">>,
       <<"j","f","k">>,
       <<"l","g","a">>,
       <<"n","e","w","a","r","k">>,
       <<"k","e","n","n","e","d","y">>,
       <<"l","a","g","u","a","r","d","i","a">> >>

----------------------------------------------------------------------------
\* JavaScript strings

Has(x) == x # <<>>

MinOf(S) == CHOOSE x \in S : \A y \in S : x <= y

MaxOf(S) == CHOOSE x \in S : \A y \in S : y <= x

UpperCaseLetters ==
    <<"A","B","C","D","E","F","G","H","I","J","K","L","M",
      "N","O","P","Q","R","S","T","U","V","W","X","Y","Z">>

LowerCaseLetters ==
    <<"a","b","c","d","e","f","g","h","i","j","k","l","m",
      "n","o","p","q","r","s","t","u","v","w","x","y","z">>

\* the lower-case letter of each upper-case letter
LowerOf ==
    [c \in {UpperCaseLetters[i] : i \in 1..26} |->
        LowerCaseLetters[CHOOSE i \in 1..26 : UpperCaseLetters[i] = c]]

LowerChar(c) == IF c \in DOMAIN LowerOf THEN LowerOf[c] ELSE c

\* String.prototype.toLowerCase
ToLowerCase(s) ==
    IF s = <<>> THEN <<>> ELSE [i \in 1..Len(s) |-> LowerChar(s[i])]

\* String.prototype.trim
Trim(s) ==
    IF \A i \in 1..Len(s) : s[i] = " " THEN <<>>
    ELSE LET first == CHOOSE i \in 1..Len(s) :
                          s[i] # " " /\ \A j \in 1..(i - 1) : s[j] = " "
             cut   == CHOOSE k \in 0..(Len(s) - 1) :
                          s[Len(s) - k] # " " /\ \A j \in 0..(k - 1) : s[Len(s) - j] = " "
         IN  SubSeq(s, first, Len(s) - cut)

\* String.prototype.includes
Includes(s, sub) ==
    \E i \in 0..(Len(s) - Len(sub)) : SubSeq(s, i + 1, i + Len(sub)) = sub

\* Array.prototype.some over a list of keywords
SomeIncluded(s, keywords) ==
    \E k \in 1..Len(keywords) : Includes(s, keywords[k])

----------------------------------------------------------------------------
\* utils.ts

\* new Date(dateTimeStr): the instant of an ISO date-time string
ParseDateTime(dateTimeStr) ==
    (dateTimeStr.date * 24 + dateTimeStr.hour) * 60 + dateTimeStr.minute

\* the ISO date-time string of an instant
FormatDateTime(date) ==
    [date   |-> date \div (24 * 60),
     hour   |-> (date % (24 * 60)) \div 60,
     minute |-> date % 60]

\* the text before the first comma, trimmed; the whole address when that is empty
GetLocationName(location) ==
    LET commas  == {i \in 1..Len(location) : location[i] = ","}
        first   == IF commas = {} THEN location
                   ELSE SubSeq(location, 1, MinOf(commas) - 1)
        trimmed == Trim(first)
    IN  IF trimmed # <<>> THEN trimmed ELSE location

GetHourFromDateTime(dateTimeStr) == dateTimeStr.hour

IsSameLocation(loc1, loc2) ==
    Trim(ToLowerCase(loc1)) = Trim(ToLowerCase(loc2))

\* Math.ceil(seconds / SECONDS_PER_MINUTE)
ToMinutes(seconds) ==
    (seconds + SECONDS_PER_MINUTE - 1) \div SECONDS_PER_MINUTE

\* the YYYY-MM-DD prefix of an ISO date-time string
ExtractDateString(dateTimeStr) == dateTimeStr.date

\* validateAddress: the trimmed address, or <<>> where the code throws Error
ValidateAddress(address) == Trim(address)

----------------------------------------------------------------------------
\* eventProcessor.ts: filtering, grouping, trip dates, low-transit, overlap

Skip(reason) == [shouldSkip |-> TRUE, reason |-> reason]

\* variant: the location keywords are looked for before the conference data
ShouldSkipEventKeywordFirst(event, s) ==
    IF ~Has(event.location) THEN Skip("no_location")
    ELSE IF event.colorId = s.transitColorId THEN Skip("already_transit_event")
    ELSE IF event.colorId = "8" THEN Skip("hold_event")
    ELSE IF SomeIncluded(ToLowerCase(event.location), VIDEO_CALL_KEYWORDS)
         THEN Skip("video_call_keyword")
    ELSE IF event.conferenceData THEN Skip("video_call_conference")
    ELSE IF /\ Has(event.start.dateTime)
            /\ GetHourFromDateTime(event.start.dateTime[1]) >= 0
            /\ GetHourFromDateTime(event.start.dateTime[1]) < 6
         THEN Skip("overnight_event")
    ELSE IF Has(event.start.date) /\ ~Has(event.start.dateTime)
         THEN Skip("all_day_event")
    ELSE [shouldSkip |-> FALSE, reason |-> ""]

\* variant: the conference data is looked at before the colours
ShouldSkipEventConferenceFirst(event, s) ==
    IF ~Has(event.location) THEN Skip("no_location")
    ELSE IF event.conferenceData THEN Skip("video_call_conference")
    ELSE IF event.colorId = s.transitColorId THEN Skip("already_transit_event")
    ELSE IF event.colorId = "8" THEN Skip("hold_event")
    ELSE IF SomeIncluded(ToLowerCase(event.location), VIDEO_CALL_KEYWORDS)
         THEN Skip("video_call_keyword")
    ELSE IF /\ Has(event.start.dateTime)
            /\ GetHourFromDateTime(event.start.dateTime[1]) >= 0
            /\ GetHourFromDateTime(event.start.dateTime[1]) < 6
         THEN Skip("overnight_event")
    ELSE IF Has(event.start.date) /\ ~Has(event.start.dateTime)
         THEN Skip("all_day_event")
    ELSE [shouldSkip |-> FALSE, reason |-> ""]

ShouldSkipEvent(event, s) ==
    IF ~Has(event.location) THEN Skip("no_location")
    ELSE IF event.colorId = s.transitColorId THEN Skip("already_transit_event")
    ELSE IF event.colorId = "8" THEN Skip("hold_event")
    ELSE IF event.conferenceData THEN Skip("video_call_conference")
    ELSE IF SomeIncluded(ToLowerCase(event.location), VIDEO_CALL_KEYWORDS)
         THEN Skip("video_call_keyword")
    ELSE IF /\ Has(event.start.dateTime)
            /\ GetHourFromDateTime(event.start.dateTime[1]) >= 0
            /\ GetHourFromDateTime(event.start.dateTime[1]) < 6
         THEN Skip("overnight_event")
    ELSE IF Has(event.start.date) /\ ~Has(event.start.dateTime)
         THEN Skip("all_day_event")
    ELSE [shouldSkip |-> FALSE, reason |-> ""]

\* whether the event has event.start.dateTime || event.start.date
HasStart(event) == Has(event.start.dateTime) \/ Has(event.start.date)

\* variant: the date-only start wins over the precise one
StartDateStringDateFirst(event) ==
    IF Has(event.start.date)
    THEN event.start.date[1]
    ELSE ExtractDateString(event.start.dateTime[1])

\* extractDateString(event.start.dateTime || event.start.date)
StartDateString(event) ==
    IF Has(event.start.dateTime)
    THEN ExtractDateString(event.start.dateTime[1])
    ELSE event.start.date[1]

\* variant: each bucket holds its events last first
GroupEventsByDayLastFirst(evs) ==
    LET dates == {StartDateString(evs[i]) : i \in {j \in 1..Len(evs) : HasStart(evs[j])}}
    IN  [d \in dates |->
            [k \in 1..Len(SelectSeq(evs, LAMBDA e : HasStart(e) /\ StartDateString(e) = d)) |->
                SelectSeq(evs, LAMBDA e : HasStart(e) /\ StartDateString(e) = d)
                    [Len(SelectSeq(evs, LAMBDA e : HasStart(e) /\ StartDateString(e) = d)) + 1 - k]]]

\* the buckets, each in source order; an event without a start is in none
GroupEventsByDay(evs) ==
    LET dates == {StartDateString(evs[i]) : i \in {j \in 1..Len(evs) : HasStart(evs[j])}}
    IN  [d \in dates |->
            SelectSeq(evs, LAMBDA e : HasStart(e) /\ StartDateString(e) = d)]

\* Array.prototype.sort on date strings
SortedSeq(S) ==
    [k \in 1..Cardinality(S) |->
        CHOOSE x \in S : Cardinality({y \in S : y <= x}) = k]

\* variant: a flight counts wherever it leaves from
FlightDatesFromAnywhere(event, homeAirports) ==
    IF SomeIncluded(ToLowerCase(event.summary), FLIGHT_KEYWORDS) /\ HasStart(event)
    THEN {StartDateString(event)}
    ELSE {}

\* the date of an outbound flight, if the event is one
FlightDates(event, homeAirports) ==
    LET summary  == ToLowerCase(event.summary)
        location == ToLowerCase(event.location)
    IN  IF /\ SomeIncluded(summary, FLIGHT_KEYWORDS)
           /\ \E a \in 1..Len(homeAirports) :
                  Includes(location, ToLowerCase(homeAirports[a]))
           /\ HasStart(event)
        THEN {StartDateString(event)}
        ELSE {}

\* variant: the end date of a stay is a trip date too
StayDatesThroughEnd(event) ==
    IF /\ SomeIncluded(ToLowerCase(event.summary), STAY_KEYWORDS)
       /\ Has(event.start.date)
       /\ Has(event.end.date)
    THEN {d \in event.start.date[1]..event.end.date[1] : TRUE}
    ELSE {}

\* the dates of a stay, end date exclusive
StayDates(event) ==
    IF /\ SomeIncluded(ToLowerCase(event.summary), STAY_KEYWORDS)
       /\ Has(event.start.date)
       /\ Has(event.end.date)
    THEN {d \in event.start.date[1]..(event.end.date[1] - 1) : TRUE}
    ELSE {}

DetectTripDates(evs, homeAirports) ==
    UNION {FlightDates(evs[i], homeAirports) \cup StayDates(evs[i]) : i \in 1..Len(evs)}

IsLowTransitLocation(address, lowTransitLocations) ==
    \E p \in 1..Len(lowTransitLocations) :
        Includes(ToLowerCase(address), ToLowerCase(lowTransitLocations[p]))

\* variant: the colour of the events is not looked at
OverlapsExistingTransitAnyColour(start, end, evs, transitColorId) ==
    \E i \in 1..Len(evs) :
        /\ Has(evs[i].start.dateTime)
        /\ Has(evs[i].end.dateTime)
        /\ start < ParseDateTime(evs[i].end.dateTime[1])
        /\ end > ParseDateTime(evs[i].start.dateTime[1])

\* variant: spans that touch overlap
OverlapsExistingTransitTouching(start, end, evs, transitColorId) ==
    \E i \in 1..Len(evs) :
        /\ evs[i].colorId = transitColorId
        /\ Has(evs[i].start.dateTime)
        /\ Has(evs[i].end.dateTime)
        /\ start <= ParseDateTime(evs[i].end.dateTime[1])
        /\ end >= ParseDateTime(evs[i].start.dateTime[1])

\* variant: nothing ever overlaps
OverlapsExistingTransitNever(start, end, evs, transitColorId) == FALSE

\* variant: only a tagged event lying strictly inside the span overlaps it
OverlapsExistingTransitInside(start, end, evs, transitColorId) ==
    \E i \in 1..Len(evs) :
        /\ evs[i].colorId = transitColorId
        /\ Has(evs[i].start.dateTime)
        /\ Has(evs[i].end.dateTime)
        /\ start < ParseDateTime(evs[i].start.dateTime[1])
        /\ end > ParseDateTime(evs[i].end.dateTime[1])

OverlapsExistingTransit(start, end, evs, transitColorId) ==
    \E i \in 1..Len(evs) :
        /\ evs[i].colorId = transitColorId
        /\ Has(evs[i].start.dateTime)
        /\ Has(evs[i].end.dateTime)
        /\ start < ParseDateTime(evs[i].end.dateTime[1])
        /\ end > ParseDateTime(evs[i].start.dateTime[1])

----------------------------------------------------------------------------
\* transitCalculator.ts: the route-oracle client
\*
\* An answer of the oracle to one request, as callRoutesApi hands it on:
\*   "route" with its duration in seconds, "none" (a response without a
\*   usable route), or "error" (a RoutesApiError).
\* ans gives the answer the oracle would make to a request of each travel
\* mode for the gap at hand; a mode is requested at most once per gap.

RouteAnswer(seconds) == [kind |-> "route", seconds |-> seconds]
NoRouteAnswer == [kind |-> "none", seconds |-> 0]
ErrorAnswer == [kind |-> "error", seconds |-> 0]
\* a plain Error (validateAddress), raised before any request is sent
InputError == [kind |-> "throw", seconds |-> 0]

Failed(out) == out.kind \in {"error", "throw"}

\* lines 232-328: the call once its addresses are validated (<<>>: invalid)
SendRequest(origin, destination, travelMode, departureTime, answer) ==
    IF origin = <<>> \/ destination = <<>>
    THEN [out |-> InputError, sent |-> <<>>]
    ELSE [out  |-> answer,
          sent |-> << [origin        |-> origin,
                       destination   |-> destination,
                       travelMode    |-> travelMode,
                       departureTime |-> departureTime,
                       answer        |-> answer] >>]

\* the outcome of the call and the request it sent, if any
CallRoutesApi(origin, destination, travelMode, departureTime, ans) ==
    SendRequest(ValidateAddress(origin), ValidateAddress(destination), travelMode,
                departureTime, ans[travelMode])

\* a RouteResult, or the null / thrown outcome of getTransitTime
Route(durationMinutes, mode) ==
    [kind |-> "route", durationMinutes |-> durationMinutes, mode |-> mode]
NoRoute == [kind |-> "none", durationMinutes |-> 0, mode |-> ""]
Thrown(out) == [kind |-> out.kind, durationMinutes |-> 0, mode |-> ""]

CreateRouteResult(durationSeconds, mode) == Route(ToMinutes(durationSeconds), mode)

\* variant: a tie in minutes goes to driving
SelectBestRouteTiesToDriving(transitResult, driveResult) ==
    IF transitResult.kind = "none" /\ driveResult.kind = "none" THEN NoRoute
    ELSE IF transitResult.kind = "none"
         THEN CreateRouteResult(driveResult.seconds, "driving")
    ELSE IF driveResult.kind = "none"
         THEN CreateRouteResult(transitResult.seconds, "transit")
    ELSE IF ToMinutes(transitResult.seconds) <= TRANSIT_FALLBACK_THRESHOLD
         THEN CreateRouteResult(transitResult.seconds, "transit")
    ELSE IF ToMinutes(driveResult.seconds) <= ToMinutes(transitResult.seconds)
         THEN CreateRouteResult(driveResult.seconds, "driving")
    ELSE CreateRouteResult(transitResult.seconds, "transit")

\* both arguments are "route" or "none" answers
SelectBestRoute(transitResult, driveResult) ==
    IF transitResult.kind = "none" /\ driveResult.kind = "none" THEN NoRoute
    ELSE IF transitResult.kind = "none"
         THEN CreateRouteResult(driveResult.seconds, "driving")
    ELSE IF driveResult.kind = "none"
         THEN CreateRouteResult(transitResult.seconds, "transit")
    ELSE IF ToMinutes(transitResult.seconds) <= TRANSIT_FALLBACK_THRESHOLD
         THEN CreateRouteResult(transitResult.seconds, "transit")
    ELSE IF ToMinutes(driveResult.seconds) < ToMinutes(transitResult.seconds)
         THEN CreateRouteResult(driveResult.seconds, "driving")
    ELSE CreateRouteResult(transitResult.seconds, "transit")

\* lines 349-353 and 373-380: the result of a driving request alone
DriveOnly(out) ==
    IF Failed(out) THEN Thrown(out)
    ELSE IF out.kind = "route" THEN CreateRouteResult(out.seconds, "driving")
    ELSE NoRoute

\* variant: driving is asked for whatever transit takes
TransitThenDriveAlwaysComparing(forceDrive, transit, drive) ==
    IF forceDrive THEN
        [result |-> DriveOnly(drive.out), sent |-> drive.sent]
    ELSE IF Failed(transit.out) THEN
        [result |-> Thrown(transit.out), sent |-> transit.sent]
    ELSE IF transit.out.kind = "route" THEN
        [result |-> IF Failed(drive.out) THEN Thrown(drive.out)
                    ELSE SelectBestRoute(transit.out, drive.out),
         sent   |-> transit.sent \o drive.sent]
    ELSE
        [result |-> DriveOnly(drive.out), sent |-> transit.sent \o drive.sent]

\* variant: no route by transit is no route at all
TransitThenDriveWithoutFallback(forceDrive, transit, drive) ==
    IF forceDrive THEN
        [result |-> DriveOnly(drive.out), sent |-> drive.sent]
    ELSE IF Failed(transit.out) THEN
        [result |-> Thrown(transit.out), sent |-> transit.sent]
    ELSE IF transit.out.kind = "route" THEN
        IF ToMinutes(transit.out.seconds) <= TRANSIT_FALLBACK_THRESHOLD THEN
            [result |-> CreateRouteResult(transit.out.seconds, "transit"),
             sent   |-> transit.sent]
        ELSE
            [result |-> IF Failed(drive.out) THEN Thrown(drive.out)
                        ELSE SelectBestRoute(transit.out, drive.out),
             sent   |-> transit.sent \o drive.sent]
    ELSE
        [result |-> NoRoute, sent |-> transit.sent]

\* variant: the transit route is kept when the driving request fails
TransitThenDriveKeepingTransit(forceDrive, transit, drive) ==
    IF forceDrive THEN
        [result |-> DriveOnly(drive.out), sent |-> drive.sent]
    ELSE IF Failed(transit.out) THEN
        [result |-> Thrown(transit.out), sent |-> transit.sent]
    ELSE IF transit.out.kind = "route" THEN
        IF ToMinutes(transit.out.seconds) <= TRANSIT_FALLBACK_THRESHOLD THEN
            [result |-> CreateRouteResult(transit.out.seconds, "transit"),
             sent   |-> transit.sent]
        ELSE
            [result |-> IF Failed(drive.out)
                        THEN CreateRouteResult(transit.out.seconds, "transit")
                        ELSE SelectBestRoute(transit.out, drive.out),
             sent   |-> transit.sent \o drive.sent]
    ELSE
        [result |-> DriveOnly(drive.out), sent |-> transit.sent \o drive.sent]

\* lines 347-381, given what each of the two calls returns if it is made
TransitThenDrive(forceDrive, transit, drive) ==
    IF forceDrive THEN
        [result |-> DriveOnly(drive.out), sent |-> drive.sent]
    ELSE IF Failed(transit.out) THEN
        [result |-> Thrown(transit.out), sent |-> transit.sent]
    ELSE IF transit.out.kind = "route" THEN
        IF ToMinutes(transit.out.seconds) <= TRANSIT_FALLBACK_THRESHOLD THEN
            [result |-> CreateRouteResult(transit.out.seconds, "transit"),
             sent   |-> transit.sent]
        ELSE
            [result |-> IF Failed(drive.out) THEN Thrown(drive.out)
                        ELSE SelectBestRoute(transit.out, drive.out),
             sent   |-> transit.sent \o drive.sent]
    ELSE
        [result |-> DriveOnly(drive.out), sent |-> transit.sent \o drive.sent]

\* [result, sent]: the RouteResult / null / thrown error, and the requests sent
GetTransitTime(origin, destination, forceDrive, departureTime, ans) ==
    TransitThenDrive(forceDrive,
        CallRoutesApi(origin, destination, "TRANSIT", departureTime, ans),
        CallRoutesApi(origin, destination, "DRIVE", departureTime, ans))

\* [out, sent]: seconds of walking as "route", "none", or the thrown error
GetWalkingTime(origin, destination, ans) ==
    CallRoutesApi(origin, destination, "WALK", <<>>, ans)

----------------------------------------------------------------------------
\* eventProcessor.ts: trip duration validation

Invalid(reason, sent) ==
    [valid |-> FALSE, reason |-> reason, mode |-> "", walkMinutes |-> <<>>, sent |-> sent]

Valid(mode, walkMinutes, sent) ==
    [valid |-> TRUE, reason |-> "", mode |-> mode, walkMinutes |-> walkMinutes, sent |-> sent]

\* variant: a walk of exactly the longest walkable time is driven
WalkabilityBelowCeiling(walk) ==
    IF Failed(walk.out) THEN Valid("drive", <<>>, walk.sent)
    ELSE IF walk.out.kind = "none" THEN Valid("drive", <<>>, walk.sent)
    ELSE IF ToMinutes(walk.out.seconds) >= MAX_WALKABLE_MINUTES
         THEN Valid("drive", <<>>, walk.sent)
    ELSE IF ToMinutes(walk.out.seconds) >= MIN_TRIP_MINUTES
         THEN Valid("walk", <<ToMinutes(walk.out.seconds)>>, walk.sent)
    ELSE Invalid("too short to track", walk.sent)

\* variant: a walking query that fails rejects the candidate
WalkabilityRejectingFailure(walk) ==
    IF Failed(walk.out) THEN Invalid("too short to track", walk.sent)
    ELSE IF walk.out.kind = "none" THEN Valid("drive", <<>>, walk.sent)
    ELSE IF ToMinutes(walk.out.seconds) > MAX_WALKABLE_MINUTES
         THEN Valid("drive", <<>>, walk.sent)
    ELSE IF ToMinutes(walk.out.seconds) >= MIN_TRIP_MINUTES
         THEN Valid("walk", <<ToMinutes(walk.out.seconds)>>, walk.sent)
    ELSE Invalid("too short to track", walk.sent)

\* lines 325-348, given what getWalkingTime returns
Walkability(walk) ==
    IF Failed(walk.out) THEN Valid("drive", <<>>, walk.sent)
    ELSE IF walk.out.kind = "none" THEN Valid("drive", <<>>, walk.sent)
    ELSE IF ToMinutes(walk.out.seconds) > MAX_WALKABLE_MINUTES
         THEN Valid("drive", <<>>, walk.sent)
    ELSE IF ToMinutes(walk.out.seconds) >= MIN_TRIP_MINUTES
         THEN Valid("walk", <<ToMinutes(walk.out.seconds)>>, walk.sent)
    ELSE Invalid("too short to track", walk.sent)

\* variant: no floor; every short candidate goes through the walkability check
IsValidTripDurationWithoutFloor(driveDurationMin, origin, destination, lowTransitLocations, ans) ==
    IF driveDurationMin > MAX_TRANSIT_MINUTES THEN Invalid("too long", <<>>)
    ELSE IF driveDurationMin >= SHORT_TRIP_THRESHOLD_MINUTES THEN Valid("", <<>>, <<>>)
    ELSE IF \/ IsLowTransitLocation(origin, lowTransitLocations)
            \/ IsLowTransitLocation(destination, lowTransitLocations)
         THEN Valid("drive", <<>>, <<>>)
    ELSE Walkability(GetWalkingTime(origin, destination, ans))

\* variant: no ceiling; a candidate of any length above the threshold is accepted
IsValidTripDurationWithoutCeiling(driveDurationMin, origin, destination, lowTransitLocations, ans) ==
    IF driveDurationMin >= SHORT_TRIP_THRESHOLD_MINUTES THEN Valid("", <<>>, <<>>)
    ELSE IF driveDurationMin < MIN_TRIP_MINUTES THEN Invalid("too short", <<>>)
    ELSE IF \/ IsLowTransitLocation(origin, lowTransitLocations)
            \/ IsLowTransitLocation(destination, lowTransitLocations)
         THEN Valid("drive", <<>>, <<>>)
    ELSE Walkability(GetWalkingTime(origin, destination, ans))

\* variant: a candidate that could be walked is a short trip
IsValidTripDurationShortUpToWalkable(driveDurationMin, origin, destination, lowTransitLocations, ans) ==
    IF driveDurationMin > MAX_TRANSIT_MINUTES THEN Invalid("too long", <<>>)
    ELSE IF driveDurationMin > MAX_WALKABLE_MINUTES THEN Valid("", <<>>, <<>>)
    ELSE IF driveDurationMin < MIN_TRIP_MINUTES THEN Invalid("too short", <<>>)
    ELSE IF \/ IsLowTransitLocation(origin, lowTransitLocations)
            \/ IsLowTransitLocation(destination, lowTransitLocations)
         THEN Valid("drive", <<>>, <<>>)
    ELSE Walkability(GetWalkingTime(origin, destination, ans))

\* variant: a candidate of exactly the threshold is a short trip
IsValidTripDurationAboveThreshold(driveDurationMin, origin, destination, lowTransitLocations, ans) ==
    IF driveDurationMin > MAX_TRANSIT_MINUTES THEN Invalid("too long", <<>>)
    ELSE IF driveDurationMin > SHORT_TRIP_THRESHOLD_MINUTES THEN Valid("", <<>>, <<>>)
    ELSE IF driveDurationMin < MIN_TRIP_MINUTES THEN Invalid("too short", <<>>)
    ELSE IF \/ IsLowTransitLocation(origin, lowTransitLocations)
            \/ IsLowTransitLocation(destination, lowTransitLocations)
         THEN Valid("drive", <<>>, <<>>)
    ELSE Walkability(GetWalkingTime(origin, destination, ans))

IsValidTripDuration(driveDurationMin, origin, destination, lowTransitLocations, ans) ==
    IF driveDurationMin > MAX_TRANSIT_MINUTES THEN Invalid("too long", <<>>)
    ELSE IF driveDurationMin >= SHORT_TRIP_THRESHOLD_MINUTES THEN Valid("", <<>>, <<>>)
    ELSE IF driveDurationMin < MIN_TRIP_MINUTES THEN Invalid("too short", <<>>)
    ELSE IF \/ IsLowTransitLocation(origin, lowTransitLocations)
            \/ IsLowTransitLocation(destination, lowTransitLocations)
         THEN Valid("drive", <<>>, <<>>)
    ELSE Walkability(GetWalkingTime(origin, destination, ans))

----------------------------------------------------------------------------
\* eventProcessor.ts: derived events

\* "TRANSIT", "DRIVE", "WALK" and the words of the description
ModePrefix(effectiveMode) ==
    IF effectiveMode = "walk" THEN <<"W","A","L","K">>
    ELSE IF effectiveMode \in {"driving", "drive"} THEN <<"D","R","I","V","E">>
    ELSE <<"T","R","A","N","S","I","T">>

ModeDescription(effectiveMode) ==
    IF effectiveMode = "walk" THEN "walking"
    ELSE IF effectiveMode \in {"driving", "drive"} THEN "driving"
    ELSE "transit"

\* `${modePrefix}: ${from} -> ${to}`; "->" stands for the one character U+2192
Summary(modePrefix, from, to) ==
    modePrefix \o <<":", " ">> \o from \o <<" ", "->", " ">> \o to

CreateDerivedEvent(summary, location, startTime, endTime, colorId, description) ==
    [summary     |-> summary,
     location    |-> location,
     colorId     |-> colorId,
     start       |-> [dateTime |-> FormatDateTime(startTime)],
     end         |-> [dateTime |-> FormatDateTime(endTime)],
     description |-> description]

\* variant: the mode of the route, whatever the override
EffectiveModeOfRoute(transitResult, modeOverride) ==
    transitResult.mode

\* modeOverride || transitResult.mode, modeOverride being "" when not given
EffectiveMode(transitResult, modeOverride) ==
    IF modeOverride # "" THEN modeOverride ELSE transitResult.mode

\* variant: the duration of the route, whatever the override
EffectiveDurationOfRoute(transitResult, durationOverride) ==
    transitResult.durationMinutes

\* durationOverride ?? transitResult.durationMinutes, <<>> when not given
EffectiveDuration(transitResult, durationOverride) ==
    IF Has(durationOverride) THEN durationOverride[1] ELSE transitResult.durationMinutes

\* variant: the leg starts, instead of ends, when the event starts
CreateTransitEventFromEventStart(transitResult, prevLocation, prevLocationName, destination, eventStart, colorId, modeOverride, durationOverride) ==
    CreateDerivedEvent(
        Summary(ModePrefix(EffectiveMode(transitResult, modeOverride)),
                prevLocationName, GetLocationName(destination)),
        prevLocation,
        eventStart,
        eventStart + EffectiveDuration(transitResult, durationOverride),
        colorId,
        [text    |-> "Arriving at",
         address |-> destination,
         mode    |-> ModeDescription(EffectiveMode(transitResult, modeOverride)),
         minutes |-> EffectiveDuration(transitResult, durationOverride)])

\* variant: the leg is located at its destination
CreateTransitEventAtDestination(transitResult, prevLocation, prevLocationName, destination, eventStart, colorId, modeOverride, durationOverride) ==
    CreateDerivedEvent(
        Summary(ModePrefix(EffectiveMode(transitResult, modeOverride)),
                prevLocationName, GetLocationName(destination)),
        destination,
        eventStart - EffectiveDuration(transitResult, durationOverride),
        eventStart,
        colorId,
        [text    |-> "Arriving at",
         address |-> destination,
         mode    |-> ModeDescription(EffectiveMode(transitResult, modeOverride)),
         minutes |-> EffectiveDuration(transitResult, durationOverride)])

CreateTransitEvent(transitResult, prevLocation, prevLocationName, destination, eventStart, colorId, modeOverride, durationOverride) ==
    CreateDerivedEvent(
        Summary(ModePrefix(EffectiveMode(transitResult, modeOverride)),
                prevLocationName, GetLocationName(destination)),
        prevLocation,
        eventStart - EffectiveDuration(transitResult, durationOverride),
        eventStart,
        colorId,
        [text    |-> "Arriving at",
         address |-> destination,
         mode    |-> ModeDescription(EffectiveMode(transitResult, modeOverride)),
         minutes |-> EffectiveDuration(transitResult, durationOverride)])

CreateReturnHomeEvent(transitResult, prevLocation, prevLocationName, homeAddress, lastEventEnd, colorId, modeOverride, durationOverride) ==
    CreateDerivedEvent(
        Summary(ModePrefix(EffectiveMode(transitResult, modeOverride)),
                prevLocationName, <<"H","o","m","e">>),
        prevLocation,
        lastEventEnd,
        lastEventEnd + EffectiveDuration(transitResult, durationOverride),
        colorId,
        [text    |-> "Returning home",
         address |-> homeAddress,
         mode    |-> ModeDescription(EffectiveMode(transitResult, modeOverride)),
         minutes |-> EffectiveDuration(transitResult, durationOverride)])

----------------------------------------------------------------------------
\* The inputs of a run

HomeAddress == <<"1","2","3"," ","H","o","m","e"," ","S","t">>
MainAddress == <<"4","5","6"," ","M","a","i","n"," ","S","t">>
MainAddressShouted == <<" ","4","5","6"," ","M","A","I","N"," ","S","T"," ">>
OakAddress == <<"7","8","9"," ","O","a","k"," ","A","v","e">>
ZoomLocation == <<"z","o","o","m",".","u","s","/","j","/","1">>
InnAddress == <<"1"," ","I","n","n"," ","R","d",","," ","L","A">>

TimedEvent(id, summary, location, colorId, date, fromHour, fromMinute, toHour, toMinute) ==
    [id             |-> id,
     summary        |-> summary,
     location       |-> location,
     colorId        |-> colorId,
     conferenceData |-> FALSE,
     start |-> [dateTime |-> << [date |-> date, hour |-> fromHour, minute |-> fromMinute] >>,
                date     |-> <<>>],
     end   |-> [dateTime |-> << [date |-> date, hour |-> toHour, minute |-> toMinute] >>,
                date     |-> <<>>]]

AllDayEvent(id, summary, location, fromDate, toDate) ==
    [id             |-> id,
     summary        |-> summary,
     location       |-> location,
     colorId        |-> "",
     conferenceData |-> FALSE,
     start |-> [dateTime |-> <<>>, date |-> <<fromDate>>],
     end   |-> [dateTime |-> <<>>, date |-> <<toDate>>]]

\* The events a list is drawn from, in the order of their start times (the
\* calendar is read with orderBy=startTime).  Dates 1 and 2 are two
\* consecutive days.
EventPool ==
    << AllDayEvent(1, <<"H","o","t","e","l">>, InnAddress, 1, 2),
       TimedEvent(2, <<"T","R","A","N","S","I","T",":"," ","o","l","d">>,
                  HomeAddress, "11", 1, 9, 30, 10, 0),
       TimedEvent(3, <<"M","t","g">>, MainAddress, "", 1, 10, 0, 11, 0),
       TimedEvent(4, <<"L","a","b">>, MainAddressShouted, "", 1, 12, 0, 13, 0),
       TimedEvent(5, <<"G","y","m">>, OakAddress, "", 1, 14, 0, 15, 0),
       TimedEvent(6, <<"C","a","l","l">>, ZoomLocation, "", 1, 16, 0, 17, 0),
       TimedEvent(7, <<"M","t","g">>, MainAddress, "", 2, 10, 0, 11, 0),
       TimedEvent(8, <<>>, HomeAddress, "", 2, 18, 0, 19, 0) >>

\* the events of the pool whose index is in S, in the pool's order
Pick(pool, S) == [k \in 1..Cardinality(S) |-> pool[SortedSeq(S)[k]]]

EventLists ==
    {Pick(EventPool, S) : S \in {T \in SUBSET (1..Len(EventPool)) : Cardinality(T) <= MaxEvents}}

BaseSettings ==
    [homeAddress         |-> HomeAddress,
     transitColorId      |-> "11",
     lowTransitLocations |-> <<>>,
     homeAirports        |-> DEFAULT_HOME_AIRPORTS,
     detectTrips         |-> FALSE]

SettingsChoices ==
    { BaseSettings,
      [BaseSettings EXCEPT !.detectTrips = TRUE],
      [BaseSettings EXCEPT !.lowTransitLocations = << <<"O","a","k">> >>] }

\* The oracle.  Its nominal answers are those of the end-to-end scenario:
\* transit takes 20 minutes to the home address and 25 minutes elsewhere.
NominalAnswers(destination, homeAddress) ==
    [TRANSIT |-> RouteAnswer(IF IsSameLocation(destination, homeAddress) THEN 1200 ELSE 1500),
     DRIVE   |-> RouteAnswer(900),
     WALK    |-> NoRouteAnswer]

\* 3, 7, 20, 25, 85 and 185 minutes of transit
TransitAnswers ==
    {ErrorAnswer, NoRouteAnswer} \cup {RouteAnswer(sec) : sec \in {180, 420, 1200, 1500, 5100, 11100}}

\* 7, 25 and 90 minutes of driving
DriveAnswers ==
    {ErrorAnswer, NoRouteAnswer} \cup {RouteAnswer(sec) : sec \in {420, 1500, 5400}}

\* 2, 9 and 20 minutes of walking
WalkAnswers ==
    {ErrorAnswer, NoRouteAnswer} \cup {RouteAnswer(sec) : sec \in {120, 540, 1200}}

\* whether the requests sent include one of this travel mode
Asked(sent, travelMode) ==
    \E i \in 1..Len(sent) : sent[i].travelMode = travelMode

Deviation(destination, ans) ==
    IF ans = NominalAnswers(destination, settings.homeAddress) THEN 0 ELSE 1

----------------------------------------------------------------------------
\* transitCalculator.ts: one call of callRoutesApi, step by step
\*
\* The oracle answers a request in two stages: the status line and headers,
\* which resolve fetch, and then the body, which resolves response.json().
\* At either stage it may stall: it then sends nothing more.  The timer set
\* at line 258 may fire at any moment while it is armed, so every timing of
\* the response against ROUTES_API_TIMEOUT_MS is covered.

\* What the call hands to its caller: "route" with its seconds, "none"
\* (null), "error" (a RoutesApiError with its statusCode and isTransient),
\* "throw" (the plain Error of validateAddress), or "pending" while it runs.
CallResult(kind, seconds, statusCode, isTransient) ==
    [kind |-> kind, seconds |-> seconds, statusCode |-> statusCode,
     isTransient |-> isTransient]

\* lines 302-327: the catch block, for an error that is no RoutesApiError;
\* a timeout and any other error both give a transient error of status 0
Caught(errorName) ==
    IF errorName = "AbortError" THEN CallResult("error", 0, 0, TRUE)
    ELSE CallResult("error", 0, 0, TRUE)

\* response.ok
Ok(status) == status \in 200..299

\* The bodies of a response.  A body that parses: with a first route that has
\* a duration of the form "<seconds>s" ("duration"), with a first route whose
\* duration has another form ("badDuration") or none ("noDuration"), with an
\* empty list of routes ("emptyRoutes") or no list ("noRoutes", which an
\* error body {error: {message}} is too).  "notJson" is a body that
\* response.json() rejects.
Bodies ==
    {[kind |-> "duration", seconds |-> sec] : sec \in {420, 5100}}
        \cup {[kind |-> k, seconds |-> 0] :
                  k \in {"badDuration", "noDuration", "emptyRoutes", "noRoutes", "notJson"}}

\* variant: a response without a usable route is an error
OkBodyResultRequiringRoute(body) ==
    IF body.kind = "duration" THEN CallResult("route", body.seconds, 0, FALSE)
    ELSE Caught("Error")

\* lines 281-301, and the catch block for what they throw
OkBodyResult(body) ==
    IF body.kind = "notJson" THEN Caught("SyntaxError")
    ELSE IF body.kind \in {"noRoutes", "emptyRoutes"} THEN CallResult("none", 0, 0, FALSE)
    ELSE IF body.kind = "noDuration" THEN CallResult("none", 0, 0, FALSE)
    ELSE IF body.kind = "badDuration" THEN Caught("Error")
    ELSE CallResult("route", body.seconds, 0, FALSE)

\* lines 270-279, and the catch block for what they throw
ErrorBodyResult(status, body) ==
    IF body.kind = "notJson" THEN Caught("SyntaxError")
    ELSE CallResult("error", 0, status, status >= 500)

\* lines 239-252: the request body
RequestBody(origin, destination, travelMode, departureTime) ==
    [origin            |-> origin,
     destination       |-> destination,
     travelMode        |-> travelMode,
     departureTime     |-> departureTime,
     routingPreference |-> IF Has(departureTime) /\ travelMode = "DRIVE"
                           THEN "TRAFFIC_AWARE_OPTIMAL" ELSE ""]

\* no call made yet
NoCall ==
    [pc |-> "idle", request |-> <<>>, timer |-> "unset", oracle |-> "live",
     status |-> 0, body |-> [kind |-> "", seconds |-> 0], failure |-> "",
     result |-> CallResult("pending", 0, 0, FALSE)]

\* no function applied yet
NothingApplied == [fn |-> ""]

----------------------------------------------------------------------------
\* calculateTransitEvents

NoStep == [kind |-> "none", date |-> 0, eventId |-> 0, origin |-> <<>>,
           originName |-> <<>>, outcome |-> ""]

Init ==
    /\ events \in EventLists
    /\ settings \in SettingsChoices
    /\ today \in 1..2
    /\ pc = "start"
    /\ byDay = <<>>
    /\ sortedDates = <<>>
    /\ tripDates = {}
    /\ dateIdx = 0
    /\ eventIdx = 0
    /\ previousLocation = <<>>
    /\ previousLocationName = <<>>
    /\ previousEventEnd = <<>>
    /\ transitEvents = <<>>
    /\ legGaps = <<>>
    /\ step = NoStep
    /\ exchanges = <<>>
    /\ progress = <<>>
    /\ returnAttempts = 0
    /\ offNominal = 0
    /\ run = 1
    /\ firstRun = {}
    /\ errorGaps = {}
    /\ call = NoCall
    /\ applied = NothingApplied

dateStr == sortedDates[dateIdx]

dayEvents == byDay[dateStr]

\* lines 501-518
BeginRun ==
    /\ pc = "start"
    /\ byDay' = GroupEventsByDay(events)
    /\ sortedDates' = SortedSeq(DOMAIN GroupEventsByDay(events))
    /\ tripDates' = IF settings.detectTrips
                    THEN DetectTripDates(events, settings.homeAirports)
                    ELSE {}
    /\ dateIdx' = 1
    /\ pc' = "dates"
    /\ step' = [NoStep EXCEPT !.kind = "begin"]
    /\ exchanges' = <<>>
    /\ progress' = <<>>
    /\ UNCHANGED << call, applied, events, settings, today, eventIdx, previousLocation,
                    previousLocationName, previousEventEnd, transitEvents, legGaps,
                    returnAttempts, offNominal, run, firstRun,
                    errorGaps >>

\* lines 526-528
SkipPastDate ==
    /\ pc = "dates"
    /\ dateIdx <= Len(sortedDates)
    /\ dateStr < today
    /\ dateIdx' = dateIdx + 1
    /\ step' = [NoStep EXCEPT !.kind = "past", !.date = dateStr]
    /\ exchanges' = <<>>
    /\ progress' = <<>>
    /\ UNCHANGED << call, applied, events, settings, today, pc, byDay, sortedDates, tripDates, eventIdx,
                    previousLocation, previousLocationName, previousEventEnd,
                    transitEvents, legGaps, returnAttempts, offNominal, run, firstRun,
                    errorGaps >>

\* lines 531-534
SkipTripDay ==
    /\ pc = "dates"
    /\ dateIdx <= Len(sortedDates)
    /\ ~(dateStr < today)
    /\ dateStr \in tripDates
    /\ dateIdx' = dateIdx + 1
    /\ step' = [NoStep EXCEPT !.kind = "trip", !.date = dateStr]
    /\ exchanges' = <<>>
    /\ progress' = << [type |-> "info", name |-> <<>>, text |-> "Skipping (trip day)"] >>
    /\ UNCHANGED << call, applied, events, settings, today, pc, byDay, sortedDates, tripDates, eventIdx,
                    previousLocation, previousLocationName, previousEventEnd,
                    transitEvents, legGaps, returnAttempts, offNominal, run, firstRun,
                    errorGaps >>

\* variant: the day starts where the previous one ended
StartDayWhereLeft ==
    /\ pc = "dates"
    /\ dateIdx <= Len(sortedDates)
    /\ ~(dateStr < today)
    /\ dateStr \notin tripDates
    /\ previousLocation' = IF Has(previousLocation) THEN previousLocation ELSE settings.homeAddress
    /\ previousLocationName' = IF previousLocation' = settings.homeAddress
                               THEN <<"H","o","m","e">> ELSE previousLocationName
    /\ previousEventEnd' = <<>>
    /\ eventIdx' = 1
    /\ returnAttempts' = 0
    /\ pc' = "events"
    /\ step' = [NoStep EXCEPT !.kind = "day", !.date = dateStr]
    /\ exchanges' = <<>>
    /\ progress' = << [type |-> "info", name |-> <<>>, text |-> "Processing"] >>
    /\ UNCHANGED << call, applied, events, settings, today, byDay, sortedDates, tripDates, dateIdx,
                    transitEvents, legGaps, offNominal, run, firstRun, errorGaps >>

\* variant: trip days are processed like any other
StartDayOnTripDates ==
    /\ pc = "dates"
    /\ dateIdx <= Len(sortedDates)
    /\ ~(dateStr < today)
    /\ previousLocation' = settings.homeAddress
    /\ previousLocationName' = IF previousLocation' = settings.homeAddress
                               THEN <<"H","o","m","e">> ELSE previousLocationName
    /\ previousEventEnd' = <<>>
    /\ eventIdx' = 1
    /\ returnAttempts' = 0
    /\ pc' = "events"
    /\ step' = [NoStep EXCEPT !.kind = "day", !.date = dateStr]
    /\ exchanges' = <<>>
    /\ progress' = << [type |-> "info", name |-> <<>>, text |-> "Processing"] >>
    /\ UNCHANGED << call, applied, events, settings, today, byDay, sortedDates, tripDates, dateIdx,
                    transitEvents, legGaps, offNominal, run, firstRun, errorGaps >>

\* variant: past dates are processed like any other
StartDayOnPastDates ==
    /\ pc = "dates"
    /\ dateIdx <= Len(sortedDates)
    /\ dateStr \notin tripDates
    /\ previousLocation' = settings.homeAddress
    /\ previousLocationName' = IF previousLocation' = settings.homeAddress
                               THEN <<"H","o","m","e">> ELSE previousLocationName
    /\ previousEventEnd' = <<>>
    /\ eventIdx' = 1
    /\ returnAttempts' = 0
    /\ pc' = "events"
    /\ step' = [NoStep EXCEPT !.kind = "day", !.date = dateStr]
    /\ exchanges' = <<>>
    /\ progress' = << [type |-> "info", name |-> <<>>, text |-> "Processing"] >>
    /\ UNCHANGED << call, applied, events, settings, today, byDay, sortedDates, tripDates, dateIdx,
                    transitEvents, legGaps, offNominal, run, firstRun, errorGaps >>

\* lines 536-540
StartDay ==
    /\ pc = "dates"
    /\ dateIdx <= Len(sortedDates)
    /\ ~(dateStr < today)
    /\ dateStr \notin tripDates
    /\ previousLocation' = settings.homeAddress
    /\ previousLocationName' = <<"H","o","m","e">>
    /\ previousEventEnd' = <<>>
    /\ eventIdx' = 1
    /\ returnAttempts' = 0
    /\ pc' = "events"
    /\ step' = [NoStep EXCEPT !.kind = "day", !.date = dateStr]
    /\ exchanges' = <<>>
    /\ progress' = << [type |-> "info", name |-> <<>>, text |-> "Processing"] >>
    /\ UNCHANGED << call, applied, events, settings, today, byDay, sortedDates, tripDates, dateIdx,
                    transitEvents, legGaps, offNominal, run, firstRun,
                    errorGaps >>

\* line 733
Finish ==
    /\ pc = "dates"
    /\ dateIdx > Len(sortedDates)
    /\ pc' = "done"
    /\ step' = [NoStep EXCEPT !.kind = "finish"]
    /\ exchanges' = <<>>
    /\ progress' = <<>>
    /\ UNCHANGED << call, applied, events, settings, today, byDay, sortedDates, tripDates, dateIdx,
                    eventIdx, previousLocation, previousLocationName, previousEventEnd,
                    transitEvents, legGaps, returnAttempts, offNominal, run, firstRun,
                    errorGaps >>

\* event.summary || "(untitled)"
EventName(event) ==
    IF Has(event.summary) THEN event.summary
    ELSE <<"(","u","n","t","i","t","l","e","d",")">>

SkipMessage(eventName, reason) == [type |-> "skip", name |-> eventName, text |-> reason]

CreateMessage(summary, durationMin) ==
    [type |-> "create", name |-> summary, text |-> durationMin]

\* lines 545-554: the event takes no part in the walk
PassedOver(event) ==
    \/ ShouldSkipEvent(event, settings).shouldSkip
    \/ ~Has(event.location)
    \/ ~Has(event.start.dateTime)

Attempt(outcome, sent, leg, messages) ==
    [outcome |-> outcome, sent |-> sent, leg |-> leg, messages |-> messages]

\* variant: only the destination of the gap is looked at
ForceDriveForDestination(origin, destination) ==
    IsLowTransitLocation(destination, settings.lowTransitLocations)

\* lines 568-570 and 663-665
ForceDrive(origin, destination) ==
    \/ IsLowTransitLocation(origin, settings.lowTransitLocations)
    \/ IsLowTransitLocation(destination, settings.lowTransitLocations)

\* variant: the departure time is always estimated from the event's start
DepartureTimeFromEventStart(eventStartDate) == eventStartDate - 60

\* lines 574-576
DepartureTime(eventStartDate) ==
    IF Has(previousEventEnd) THEN previousEventEnd[1] ELSE eventStartDate - 60

\* lines 599-632, the duration being valid: overlap check and synthesis
ForwardLeg(event, transit, durationCheck) ==
    IF OverlapsExistingTransit(
           ParseDateTime(event.start.dateTime[1])
               - EffectiveDuration(transit.result, durationCheck.walkMinutes),
           ParseDateTime(event.start.dateTime[1]),
           events, settings.transitColorId)
    THEN Attempt("overlaps existing transit", transit.sent \o durationCheck.sent, <<>>,
                 <<SkipMessage(EventName(event), "overlaps existing transit")>>)
    ELSE Attempt("created", transit.sent \o durationCheck.sent,
                 << CreateTransitEvent(transit.result, previousLocation,
                        previousLocationName, event.location,
                        ParseDateTime(event.start.dateTime[1]),
                        settings.transitColorId, durationCheck.mode,
                        durationCheck.walkMinutes) >>,
                 << CreateMessage(
                        Summary(ModePrefix(EffectiveMode(transit.result, durationCheck.mode)),
                                previousLocationName, GetLocationName(event.location)),
                        EffectiveDuration(transit.result, durationCheck.walkMinutes)) >>)

\* lines 589-633, a route being found: duration validation
ForwardValidated(event, transit, durationCheck) ==
    IF ~durationCheck.valid
    THEN Attempt("duration", transit.sent \o durationCheck.sent, <<>>,
                 <<SkipMessage(EventName(event), durationCheck.reason)>>)
    ELSE ForwardLeg(event, transit, durationCheck)

\* variant: the forward branch has no catch block
ForwardRoutedUncaught(event, transit, ans) ==
    IF transit.result.kind \in {"error", "throw"} THEN
        Attempt("uncaught", transit.sent, <<>>, <<>>)
    ELSE IF transit.result.kind = "none" THEN
        Attempt("no route found", transit.sent, <<>>,
                <<SkipMessage(EventName(event), "no route found")>>)
    ELSE ForwardValidated(event, transit,
             IsValidTripDuration(transit.result.durationMinutes, previousLocation,
                                 event.location, settings.lowTransitLocations, ans))

\* lines 585-639, given what getTransitTime returns
ForwardRouted(event, transit, ans) ==
    IF transit.result.kind = "error" THEN
        Attempt("API error", transit.sent, <<>>, <<SkipMessage(EventName(event), "API error")>>)
    ELSE IF transit.result.kind = "throw" THEN
        Attempt("error swallowed", transit.sent, <<>>, <<>>)
    ELSE IF transit.result.kind = "none" THEN
        Attempt("no route found", transit.sent, <<>>,
                <<SkipMessage(EventName(event), "no route found")>>)
    ELSE ForwardValidated(event, transit,
             IsValidTripDuration(transit.result.durationMinutes, previousLocation,
                                 event.location, settings.lowTransitLocations, ans))

\* lines 566-640: the gap from the current location to the event, with the
\* oracle answering ans
ForwardAttempt(event, ans) ==
    ForwardRouted(event,
        GetTransitTime(previousLocation, event.location,
                       ForceDrive(previousLocation, event.location),
                       <<DepartureTime(ParseDateTime(event.start.dateTime[1]))>>, ans),
        ans)

ReturnLabel == <<"R","e","t","u","r","n"," ","h","o","m","e">>

\* lines 695-726, the duration being valid: overlap check and synthesis
ReturnLeg(lastEvent, returnTransit, durationCheck) ==
    IF OverlapsExistingTransit(
           ParseDateTime(lastEvent.end.dateTime[1]),
           ParseDateTime(lastEvent.end.dateTime[1])
               + EffectiveDuration(returnTransit.result, durationCheck.walkMinutes),
           events, settings.transitColorId)
    THEN Attempt("overlaps existing transit", returnTransit.sent \o durationCheck.sent, <<>>,
                 <<SkipMessage(ReturnLabel, "overlaps existing transit")>>)
    ELSE Attempt("created", returnTransit.sent \o durationCheck.sent,
                 << CreateReturnHomeEvent(returnTransit.result, previousLocation,
                        previousLocationName, settings.homeAddress,
                        ParseDateTime(lastEvent.end.dateTime[1]),
                        settings.transitColorId, durationCheck.mode,
                        durationCheck.walkMinutes) >>,
                 << CreateMessage(
                        Summary(ModePrefix(EffectiveMode(returnTransit.result,
                                                         durationCheck.mode)),
                                previousLocationName, <<"H","o","m","e">>),
                        EffectiveDuration(returnTransit.result, durationCheck.walkMinutes)) >>)

\* lines 685-728, a route being found: duration validation
ReturnValidated(lastEvent, returnTransit, durationCheck) ==
    IF ~durationCheck.valid
    THEN Attempt("duration", returnTransit.sent \o durationCheck.sent, <<>>,
                 <<SkipMessage(ReturnLabel, durationCheck.reason)>>)
    ELSE ReturnLeg(lastEvent, returnTransit, durationCheck)

\* lines 674-728, given what getTransitTime returns
ReturnRouted(lastEvent, returnTransit, ans) ==
    IF returnTransit.result.kind = "error" THEN
        Attempt("API error", returnTransit.sent, <<>>, <<SkipMessage(ReturnLabel, "API error")>>)
    ELSE IF returnTransit.result.kind = "throw" THEN
        Attempt("error swallowed", returnTransit.sent, <<>>, <<>>)
    ELSE IF returnTransit.result.kind = "none" THEN
        Attempt("no route found", returnTransit.sent, <<>>,
                <<SkipMessage(ReturnLabel, "no route found")>>)
    ELSE ReturnValidated(lastEvent, returnTransit,
             IsValidTripDuration(returnTransit.result.durationMinutes, previousLocation,
                                 settings.homeAddress, settings.lowTransitLocations, ans))

\* lines 658-728: the gap from the current location to the home address
ReturnAttempt(lastEvent, ans) ==
    ReturnRouted(lastEvent,
        GetTransitTime(previousLocation, settings.homeAddress,
                       ForceDrive(previousLocation, settings.homeAddress),
                       <<ParseDateTime(lastEvent.end.dateTime[1])>>, ans),
        ans)

\* the requests that the attempt on a gap sends when the oracle answers ans
SentRequests(kind, event, ans) ==
    IF kind = "forward" THEN ForwardAttempt(event, ans).sent
    ELSE ReturnAttempt(event, ans).sent

\* What the oracle may answer for the next gap: the nominal answers, or,
\* within the bound, any answer to each request that is sent.  The answer to
\* a request that is never sent is left at the nominal one.
GapAnswers(kind, event, destination) ==
    LET nominal == NominalAnswers(destination, settings.homeAddress)
        With(t, d, w) == [TRANSIT |-> t, DRIVE |-> d, WALK |-> w]
        Ts      == IF Asked(SentRequests(kind, event, nominal), "TRANSIT")
                   THEN TransitAnswers ELSE {nominal.TRANSIT}
        Ds(t)   == IF Asked(SentRequests(kind, event,
                                         With(t, nominal.DRIVE, nominal.WALK)), "DRIVE")
                   THEN DriveAnswers ELSE {nominal.DRIVE}
        Ws(t, d) == IF Asked(SentRequests(kind, event, With(t, d, nominal.WALK)), "WALK")
                    THEN WalkAnswers ELSE {nominal.WALK}
    IN  IF offNominal < MaxOffNominal
        THEN UNION { UNION { {With(t, d, w) : w \in Ws(t, d)} : d \in Ds(t) } : t \in Ts }
        ELSE {nominal}

\* variant: the last timed event of the day, skipped or not
LastEventSkippedOrNot(evs) ==
    LET timed == {i \in 1..Len(evs) : Has(evs[i].start.dateTime)}
    IN  IF timed = {} THEN <<>> ELSE <<evs[MaxOf(timed)]>>

\* lines 652-655: the last event of the day that was walked
LastEvent(evs) ==
    LET walked == {i \in 1..Len(evs) :
                      /\ Has(evs[i].start.dateTime)
                      /\ ~ShouldSkipEvent(evs[i], settings).shouldSkip}
    IN  IF walked = {} THEN <<>> ELSE <<evs[MaxOf(walked)]>>

\* variant: a return-home leg is due wherever the day ends
ReturnDueAnywhere ==
    /\ Has(LastEvent(dayEvents))
    /\ Has(LastEvent(dayEvents)[1].end.dateTime)

\* lines 652 and 657
ReturnDue ==
    /\ ~IsSameLocation(previousLocation, settings.homeAddress)
    /\ Has(LastEvent(dayEvents))
    /\ Has(LastEvent(dayEvents)[1].end.dateTime)

StepOf(kind, eventId, outcome) ==
    [kind |-> kind, date |-> dateStr, eventId |-> eventId, origin |-> previousLocation,
     originName |-> previousLocationName, outcome |-> outcome]

\* variant: the location is left where it was
AdvanceToKeepingLocation(event) ==
    /\ previousLocation' = previousLocation
    /\ previousLocationName' = previousLocationName
    /\ previousEventEnd' = IF Has(event.end.dateTime)
                           THEN <<ParseDateTime(event.end.dateTime[1])>>
                           ELSE previousEventEnd
    /\ eventIdx' = eventIdx + 1

\* lines 643-648: the single state update at the end of the loop body
AdvanceTo(event) ==
    /\ previousLocation' = event.location
    /\ previousLocationName' = GetLocationName(event.location)
    /\ previousEventEnd' = IF Has(event.end.dateTime)
                           THEN <<ParseDateTime(event.end.dateTime[1])>>
                           ELSE previousEventEnd
    /\ eventIdx' = eventIdx + 1

\* lines 543-554
SkipEvent ==
    /\ pc = "events"
    /\ eventIdx <= Len(dayEvents)
    /\ PassedOver(dayEvents[eventIdx])
    /\ eventIdx' = eventIdx + 1
    /\ step' = StepOf("skip", dayEvents[eventIdx].id,
                      ShouldSkipEvent(dayEvents[eventIdx], settings).reason)
    /\ exchanges' = <<>>
    /\ progress' = IF ShouldSkipEvent(dayEvents[eventIdx], settings).shouldSkip
                   THEN <<SkipMessage(EventName(dayEvents[eventIdx]),
                                      ShouldSkipEvent(dayEvents[eventIdx], settings).reason)>>
                   ELSE <<>>
    /\ UNCHANGED << call, applied, events, settings, today, pc, byDay, sortedDates, tripDates, dateIdx,
                    previousLocation, previousLocationName, previousEventEnd,
                    transitEvents, legGaps, returnAttempts, offNominal, run, firstRun,
                    errorGaps >>

\* lines 563-564 and 643-648
SameLocationEvent ==
    /\ pc = "events"
    /\ eventIdx <= Len(dayEvents)
    /\ ~PassedOver(dayEvents[eventIdx])
    /\ IsSameLocation(dayEvents[eventIdx].location, previousLocation)
    /\ AdvanceTo(dayEvents[eventIdx])
    /\ step' = StepOf("same", dayEvents[eventIdx].id, "same location")
    /\ exchanges' = <<>>
    /\ progress' = <<SkipMessage(EventName(dayEvents[eventIdx]), "same location")>>
    /\ UNCHANGED << call, applied, events, settings, today, pc, byDay, sortedDates, tripDates, dateIdx,
                    transitEvents, legGaps, returnAttempts, offNominal, run, firstRun,
                    errorGaps >>

\* lines 565-648
ForwardHop ==
    /\ pc = "events"
    /\ eventIdx <= Len(dayEvents)
    /\ ~PassedOver(dayEvents[eventIdx])
    /\ ~IsSameLocation(dayEvents[eventIdx].location, previousLocation)
    /\ AdvanceTo(dayEvents[eventIdx])
    /\ \E ans \in GapAnswers("forward", dayEvents[eventIdx],
                             dayEvents[eventIdx].location) :
          LET event == dayEvents[eventIdx]
              a     == ForwardAttempt(event, ans)
          IN  /\ transitEvents' = transitEvents \o a.leg
              /\ legGaps' = IF Has(a.leg)
                            THEN Append(legGaps, [date |-> dateStr, to |-> event.id])
                            ELSE legGaps
              /\ step' = StepOf("forward", event.id, a.outcome)
              /\ exchanges' = a.sent
              /\ progress' = a.messages
              /\ offNominal' = offNominal + Deviation(event.location, ans)
              /\ errorGaps' = IF a.outcome = "API error"
                              THEN errorGaps \cup {[date |-> dateStr, to |-> event.id]}
                              ELSE errorGaps
              \* an error that no handler catches rejects the promise of the run
              /\ pc' = IF a.outcome = "uncaught" THEN "failed" ELSE "events"
    /\ UNCHANGED << call, applied, events, settings, today, byDay, sortedDates, tripDates, dateIdx,
                    returnAttempts, run, firstRun >>

\* lines 652-730
ReturnHome ==
    /\ pc = "events"
    /\ eventIdx > Len(dayEvents)
    /\ ReturnDue
    /\ \E ans \in GapAnswers("return", LastEvent(dayEvents)[1],
                             settings.homeAddress) :
          LET a == ReturnAttempt(LastEvent(dayEvents)[1], ans)
          IN  /\ transitEvents' = transitEvents \o a.leg
              /\ legGaps' = IF Has(a.leg)
                            THEN Append(legGaps, [date |-> dateStr, to |-> 0])
                            ELSE legGaps
              /\ step' = StepOf("return", 0, a.outcome)
              /\ exchanges' = a.sent
              /\ progress' = a.messages
              /\ offNominal' = offNominal + Deviation(settings.homeAddress, ans)
              /\ errorGaps' = IF a.outcome = "API error"
                              THEN errorGaps \cup {[date |-> dateStr, to |-> 0]}
                              ELSE errorGaps
              /\ pc' = IF a.outcome = "uncaught" THEN "failed" ELSE "dates"
    /\ returnAttempts' = returnAttempts + 1
    /\ dateIdx' = dateIdx + 1
    /\ UNCHANGED << call, applied, events, settings, today, byDay, sortedDates, tripDates, eventIdx,
                    previousLocation, previousLocationName, previousEventEnd, run, firstRun >>

\* lines 652, 657 and 731: the day ends without a return-home attempt
EndDay ==
    /\ pc = "events"
    /\ eventIdx > Len(dayEvents)
    /\ ~ReturnDue
    /\ dateIdx' = dateIdx + 1
    /\ pc' = "dates"
    /\ step' = StepOf("end", 0, "")
    /\ exchanges' = <<>>
    /\ progress' = <<>>
    /\ UNCHANGED << call, applied, events, settings, today, byDay, sortedDates, tripDates, eventIdx,
                    previousLocation, previousLocationName, previousEventEnd,
                    transitEvents, legGaps, returnAttempts, offNominal, run, firstRun,
                    errorGaps >>

\* the instant an event is ordered by when the calendar is read
StartInstant(event) ==
    IF Has(event.start.dateTime) THEN ParseDateTime(event.start.dateTime[1])
    ELSE event.start.date[1] * 24 * 60

\* orderBy=startTime: ascending start, ties in the order given
OrderByStartTime(evs) ==
    [k \in 1..Len(evs) |->
        evs[CHOOSE i \in 1..Len(evs) :
                Cardinality({j \in 1..Len(evs) :
                    \/ StartInstant(evs[j]) < StartInstant(evs[i])
                    \/ StartInstant(evs[j]) = StartInstant(evs[i]) /\ j <= i}) = k]]

\* a synthesized leg as the calendar hands it back once inserted
InsertedEvent(leg, id) ==
    [id             |-> id,
     summary        |-> leg.summary,
     location       |-> leg.location,
     colorId        |-> leg.colorId,
     conferenceData |-> FALSE,
     start |-> [dateTime |-> <<leg.start.dateTime>>, date |-> <<>>],
     end   |-> [dateTime |-> <<leg.end.dateTime>>, date |-> <<>>]]

\* The legs of the first run are inserted into the calendar, the calendar is
\* read again and the engine is run on it with the same settings and date.
Rerun ==
    /\ pc = "done"
    /\ run = 1
    /\ events' = OrderByStartTime(
                     events \o [i \in 1..Len(transitEvents) |->
                                   InsertedEvent(transitEvents[i], 100 + i)])
    /\ firstRun' = {legGaps[i] : i \in 1..Len(legGaps)}
    /\ run' = 2
    /\ pc' = "start"
    /\ byDay' = <<>>
    /\ sortedDates' = <<>>
    /\ tripDates' = {}
    /\ dateIdx' = 0
    /\ eventIdx' = 0
    /\ previousLocation' = <<>>
    /\ previousLocationName' = <<>>
    /\ previousEventEnd' = <<>>
    /\ transitEvents' = <<>>
    /\ legGaps' = <<>>
    /\ step' = [NoStep EXCEPT !.kind = "rerun"]
    /\ exchanges' = <<>>
    /\ progress' = <<>>
    /\ returnAttempts' = 0
    /\ offNominal' = 0
    /\ errorGaps' = {}
    /\ UNCHANGED << call, applied, settings, today >>

Next ==
    \/ BeginRun
    \/ SkipPastDate
    \/ SkipTripDay
    \/ StartDay
    \/ SkipEvent
    \/ SameLocationEvent
    \/ ForwardHop
    \/ ReturnHome
    \/ EndDay
    \/ Finish

Spec == Init /\ [][Next]_vars

\* A first run in which the oracle answers by the nominal table (its budget
\* of other answers is spent from the start); Rerun restores the budget, so
\* the second run meets every answer.
InitRerun ==
    /\ events \in {evs \in EventLists : Len(evs) <= MaxRerunEvents}
    /\ settings \in SettingsChoices
    /\ today \in 1..2
    /\ pc = "start"
    /\ byDay = <<>>
    /\ sortedDates = <<>>
    /\ tripDates = {}
    /\ dateIdx = 0
    /\ eventIdx = 0
    /\ previousLocation = <<>>
    /\ previousLocationName = <<>>
    /\ previousEventEnd = <<>>
    /\ transitEvents = <<>>
    /\ legGaps = <<>>
    /\ step = NoStep
    /\ exchanges = <<>>
    /\ progress = <<>>
    /\ returnAttempts = 0
    /\ offNominal = MaxOffNominal
    /\ run = 1
    /\ firstRun = {}
    /\ errorGaps = {}
    /\ call = NoCall
    /\ applied = NothingApplied

NextRerun ==
    \/ Next
    \/ Rerun

SpecRerun == InitRerun /\ [][NextRerun]_vars

\* A run on a calendar that may hold an event whose location is a single
\* space: a location that is there (so the filter lets the event through) and
\* is empty once trimmed.  The event lies between those at 10:00 and 12:00.
BlankLocationEvent ==
    TimedEvent(9, <<"T","b","d">>, <<" ">>, "", 1, 11, 15, 11, 45)

InitBlank ==
    /\ events \in {Pick(SubSeq(EventPool, 1, 3) \o <<BlankLocationEvent>>
                            \o SubSeq(EventPool, 4, Len(EventPool)), S) :
                       S \in {T \in SUBSET (1..(Len(EventPool) + 1)) :
                                  Cardinality(T) <= MaxBlankRunEvents}}
    /\ settings \in SettingsChoices
    /\ today \in 1..2
    /\ pc = "start"
    /\ byDay = <<>>
    /\ sortedDates = <<>>
    /\ tripDates = {}
    /\ dateIdx = 0
    /\ eventIdx = 0
    /\ previousLocation = <<>>
    /\ previousLocationName = <<>>
    /\ previousEventEnd = <<>>
    /\ transitEvents = <<>>
    /\ legGaps = <<>>
    /\ step = NoStep
    /\ exchanges = <<>>
    /\ progress = <<>>
    /\ returnAttempts = 0
    /\ offNominal = 0
    /\ run = 1
    /\ firstRun = {}
    /\ errorGaps = {}
    /\ call = NoCall
    /\ applied = NothingApplied

SpecBlank == InitBlank /\ [][Next]_vars

----------------------------------------------------------------------------
\* callRoutesApi on its own: the specification of one call

engineVars == << events, settings, today, pc, byDay, sortedDates, tripDates, dateIdx,
                 eventIdx, previousLocation, previousLocationName, previousEventEnd,
                 transitEvents, legGaps, step, exchanges, progress, returnAttempts,
                 offNominal, run, firstRun, errorGaps >>

\* calculateTransitEvents not yet called, on an empty calendar; no call of
\* the oracle made and no function applied
InitAtRest ==
    /\ events = <<>>
    /\ settings = BaseSettings
    /\ today = 1
    /\ pc = "start"
    /\ byDay = <<>>
    /\ sortedDates = <<>>
    /\ tripDates = {}
    /\ dateIdx = 0
    /\ eventIdx = 0
    /\ previousLocation = <<>>
    /\ previousLocationName = <<>>
    /\ previousEventEnd = <<>>
    /\ transitEvents = <<>>
    /\ legGaps = <<>>
    /\ step = NoStep
    /\ exchanges = <<>>
    /\ progress = <<>>
    /\ returnAttempts = 0
    /\ offNominal = 0
    /\ run = 1
    /\ firstRun = {}
    /\ errorGaps = {}
    /\ call = NoCall
    /\ applied = NothingApplied

\* lines 229-261: the addresses are validated (one of those tried is
\* blank), the timer is set and the request is sent
CallBegins ==
    /\ call.pc = "idle"
    /\ \E origin \in {HomeAddress, MainAddressShouted, <<" ", " ">>},
          destination \in {HomeAddress, MainAddressShouted, <<" ", " ">>},
          travelMode \in {"TRANSIT", "DRIVE", "WALK"},
          departureTime \in {<<>>, <<540>>} :
          call' = IF \/ ValidateAddress(origin) = <<>>
                     \/ ValidateAddress(destination) = <<>>
                  THEN [call EXCEPT !.pc = "done",
                                    !.result = CallResult("throw", 0, 0, FALSE)]
                  ELSE [call EXCEPT !.pc = "fetch",
                                    !.timer = "armed",
                                    !.request = << RequestBody(ValidateAddress(origin),
                                                       ValidateAddress(destination),
                                                       travelMode, departureTime) >>]
    /\ UNCHANGED << engineVars, applied >>

\* lines 261-270: the status line arrives, fetch resolves and the timer is
\* cleared; the body is awaited
FetchResolves ==
    /\ call.pc = "fetch"
    /\ call.oracle = "live"
    /\ \E status \in {200, 400, 404, 429, 500, 503} :
          call' = [call EXCEPT !.pc = IF Ok(status) THEN "body" ELSE "errorBody",
                               !.timer = "cleared",
                               !.status = status]
    /\ UNCHANGED << engineVars, applied >>

\* lines 261 and 302-326: the request fails on the network and fetch rejects
FetchRejects ==
    /\ call.pc = "fetch"
    /\ call.oracle = "live"
    /\ call' = [call EXCEPT !.pc = "done",
                            !.timer = "cleared",
                            !.failure = "network",
                            !.result = Caught("TypeError")]
    /\ UNCHANGED << engineVars, applied >>

\* lines 258 and 302-318: the timer fires, the controller aborts and the
\* pending await rejects with an AbortError
TimerFires ==
    /\ call.timer = "armed"
    /\ call.pc \in {"fetch", "body", "errorBody"}
    /\ call' = [call EXCEPT !.pc = "done",
                            !.timer = "fired",
                            !.failure = "timeout",
                            !.result = Caught("AbortError")]
    /\ UNCHANGED << engineVars, applied >>

\* lines 271-301: the body arrives and response.json() settles
BodyArrives ==
    /\ call.pc \in {"body", "errorBody"}
    /\ call.oracle = "live"
    /\ \E body \in Bodies :
          call' = [call EXCEPT !.pc = "done",
                               !.body = body,
                               !.result = IF call.pc = "body" THEN OkBodyResult(body)
                                          ELSE ErrorBodyResult(call.status, body)]
    /\ UNCHANGED << engineVars, applied >>

\* the oracle sends nothing more
OracleStalls ==
    /\ call.pc \in {"fetch", "body", "errorBody"}
    /\ call.oracle = "live"
    /\ call' = [call EXCEPT !.oracle = "stalled"]
    /\ UNCHANGED << engineVars, applied >>

NextCall ==
    \/ CallBegins
    \/ FetchResolves
    \/ FetchRejects
    \/ TimerFires
    \/ BodyArrives
    \/ OracleStalls

SpecCall == InitAtRest /\ [][NextCall]_vars

----------------------------------------------------------------------------
\* The functions of the engine on their own: one application to arguments
\* drawn from sets that hold the boundary cases

\* getTransitTime(origin, destination, forceDrive, departureTime), where the
\* oracle would answer ans.  Transit of 79, 80 (4800 s and 4741 s), 81, 85
\* and 185 minutes; driving of 25, 84, 85 (5100 s and 5041 s) and 90 minutes,
\* and of 0 and 1 seconds ("0s" and "1s" are durations parseDurationSeconds
\* takes).
ApplyGetTransitTime ==
    /\ applied.fn = ""
    /\ \E origin \in {HomeAddress, <<" ">>},
          forceDrive \in BOOLEAN,
          transit \in {ErrorAnswer, NoRouteAnswer}
                          \cup {RouteAnswer(sec) : sec \in {4740, 4741, 4800, 4801, 5100, 11100}},
          drive \in {ErrorAnswer, NoRouteAnswer}
                        \cup {RouteAnswer(sec) : sec \in {0, 1, 1500, 5040, 5041, 5100, 5400}} :
          applied' = [fn         |-> "getTransitTime",
                      origin     |-> origin,
                      forceDrive |-> forceDrive,
                      transit    |-> transit,
                      drive      |-> drive,
                      out        |-> GetTransitTime(origin, MainAddress, forceDrive, <<540>>,
                                        [TRANSIT |-> transit, DRIVE |-> drive,
                                         WALK |-> NoRouteAnswer])]
    /\ UNCHANGED << engineVars, call >>

\* lines 596-629: the leg from origin for an event that starts at 10:00 of
\* day 1, if the duration is valid
ValidatedLeg(transitResult, origin, destination, durationCheck) ==
    IF durationCheck.valid
    THEN << CreateTransitEvent(transitResult, origin, GetLocationName(origin), destination,
                               ParseDateTime([date |-> 1, hour |-> 10, minute |-> 0]),
                               "11", durationCheck.mode, durationCheck.walkMinutes) >>
    ELSE <<>>

\* lines 589-629 on their own: isValidTripDuration(driveDurationMin, origin,
\* destination, lowTransitLocations) for a route of driveDurationMin minutes
\* by mode, where the oracle would answer walk to a walking request, and the
\* leg made of the route and of the validation's result for an event that
\* starts at 10:00.  Walking of 2, 4, 9, 15 and 16 minutes.
ApplyIsValidTripDuration ==
    /\ applied.fn = ""
    /\ \E driveDurationMin \in {0, 3, 4, 9, 10, 12, 180, 181, 185},
          mode \in {"transit", "driving"},
          origin \in {HomeAddress, MainAddress},
          destination \in {MainAddress, OakAddress},
          lowTransitLocations \in {<<>>, << <<"o","a","k">> >>},
          walk \in {ErrorAnswer, NoRouteAnswer}
                       \cup {RouteAnswer(sec) : sec \in {120, 240, 540, 900, 960}} :
          applied' = [fn                  |-> "isValidTripDuration",
                      driveDurationMin    |-> driveDurationMin,
                      mode                |-> mode,
                      origin              |-> origin,
                      destination         |-> destination,
                      lowTransitLocations |-> lowTransitLocations,
                      walk                |-> walk,
                      out                 |-> IsValidTripDuration(driveDurationMin,
                                                  origin, destination, lowTransitLocations,
                                                  [TRANSIT |-> NoRouteAnswer,
                                                   DRIVE |-> NoRouteAnswer, WALK |-> walk]),
                      leg                 |-> ValidatedLeg(Route(driveDurationMin, mode),
                                                  origin, destination,
                                                  IsValidTripDuration(driveDurationMin,
                                                      origin, destination,
                                                      lowTransitLocations,
                                                      [TRANSIT |-> NoRouteAnswer,
                                                       DRIVE |-> NoRouteAnswer, WALK |-> walk]))]
    /\ UNCHANGED << engineVars, call >>

\* the instants a span may start or end at: 9:00, 9:30, 9:40, 10:00, 10:30
SpanTimes == << <<9, 0>>, <<9, 30>>, <<9, 40>>, <<10, 0>>, <<10, 30>> >>

\* an event of day 1 with the transit colour over the span from time i to time j
TaggedOver(i, j) ==
    TimedEvent(20, <<"T","R","A","N","S","I","T",":"," ","o","l","d">>, HomeAddress, "11", 1,
               SpanTimes[i][1], SpanTimes[i][2], SpanTimes[j][1], SpanTimes[j][2])

\* overlapsExistingTransit(start, end, events, transitColorId) as lines 610
\* and 706 call it, on the events given to the run, the legs made so far
\* being held in transitEvents.  The events are drawn from: a tagged event
\* 9:30-10:00, the same without the tag, the same all day (no precise
\* timestamps) and the same without a precise end; a leg 9:30-10:00 may have
\* been made.
ApplyOverlapsExistingTransit ==
    /\ applied.fn = ""
    /\ \E i \in 1..Len(SpanTimes), j \in 1..Len(SpanTimes),
          picked \in {T \in SUBSET (1..4) : Cardinality(T) <= 2},
          made \in BOOLEAN :
          /\ i < j
          /\ LET pool == << TaggedOver(2, 4),
                            [TaggedOver(2, 4) EXCEPT !.colorId = ""],
                            [AllDayEvent(21, <<"o","l","d">>, HomeAddress, 1, 2)
                                 EXCEPT !.colorId = "11"],
                            [TaggedOver(2, 4) EXCEPT !.end.dateTime = <<>>] >>
             IN  applied' = [fn            |-> "overlapsExistingTransit",
                             start         |-> ParseDateTime([date |-> 1, hour |-> SpanTimes[i][1], minute |-> SpanTimes[i][2]]),
                             end           |-> ParseDateTime([date |-> 1, hour |-> SpanTimes[j][1], minute |-> SpanTimes[j][2]]),
                             events        |-> Pick(pool, picked),
                             transitEvents |-> IF made
                                               THEN << CreateTransitEvent(Route(30, "transit"),
                                                           HomeAddress, <<"H","o","m","e">>,
                                                           MainAddress,
                                                           ParseDateTime([date |-> 1, hour |-> 10, minute |-> 0]),
                                                           "11", "", <<>>) >>
                                               ELSE <<>>,
                             out           |-> OverlapsExistingTransit(
                                                   ParseDateTime([date |-> 1, hour |-> SpanTimes[i][1], minute |-> SpanTimes[i][2]]),
                                                   ParseDateTime([date |-> 1, hour |-> SpanTimes[j][1], minute |-> SpanTimes[j][2]]),
                                                   Pick(pool, picked), "11")]
    /\ UNCHANGED << engineVars, call >>

\* overlapsExistingTransit for two spans a and b of day 1, each tested
\* against a transit-tagged event over the other
ApplyOverlapBothWays ==
    /\ applied.fn = ""
    /\ \E i \in 1..Len(SpanTimes), j \in 1..Len(SpanTimes),
          k \in 1..Len(SpanTimes), l \in 1..Len(SpanTimes) :
          /\ i < j
          /\ k < l
          /\ applied' = [fn |-> "overlapBothWays",
                         a  |-> <<i, j>>,
                         b  |-> <<k, l>>,
                         ab |-> OverlapsExistingTransit(
                                    ParseDateTime([date |-> 1, hour |-> SpanTimes[i][1], minute |-> SpanTimes[i][2]]),
                                    ParseDateTime([date |-> 1, hour |-> SpanTimes[j][1], minute |-> SpanTimes[j][2]]),
                                    << TaggedOver(k, l) >>, "11"),
                         ba |-> OverlapsExistingTransit(
                                    ParseDateTime([date |-> 1, hour |-> SpanTimes[k][1], minute |-> SpanTimes[k][2]]),
                                    ParseDateTime([date |-> 1, hour |-> SpanTimes[l][1], minute |-> SpanTimes[l][2]]),
                                    << TaggedOver(i, j) >>, "11")]
    /\ UNCHANGED << engineVars, call >>

\* shouldSkipEvent(event, settings) for an event with or without a location
\* (an address or a meeting link), with no colour, the transit colour or
\* colour 8, with or without conference data, and starting at 0:00, 5:00,
\* 6:00 or 10:00, or lasting all day (hour -1)
ApplyShouldSkipEvent ==
    /\ applied.fn = ""
    /\ \E location \in {<<>>, MainAddress, ZoomLocation},
          colorId \in {"", "11", "8"},
          conferenceData \in BOOLEAN,
          hour \in {-1, 0, 5, 6, 10} :
          LET timed == TimedEvent(30, <<"M","t","g">>, location, colorId, 1, hour, 0, hour + 1, 0)
              event == IF hour = -1
                       THEN [AllDayEvent(30, <<"M","t","g">>, location, 1, 2)
                                EXCEPT !.colorId = colorId, !.conferenceData = conferenceData]
                       ELSE [timed EXCEPT !.conferenceData = conferenceData]
          IN  applied' = [fn    |-> "shouldSkipEvent",
                          event |-> event,
                          out   |-> ShouldSkipEvent(event, BaseSettings)]
    /\ UNCHANGED << engineVars, call >>

\* calendarService.ts, insertTransitEvents: the loop from the i-th event on.
\* inserted[i] tells whether insertTransitEvent would resolve for the i-th
\* event (it rejects when the token is missing, the request fails or the
\* response is not ok); acc holds the events attempted and the count so far.
RECURSIVE InsertFrom(_, _, _, _)
\* variant: the first insert that fails ends the loop
InsertFromUntilFailure(evs, inserted, i, acc) ==
    IF i > Len(evs) THEN acc
    ELSE IF ~inserted[i]
         THEN [attempted |-> Append(acc.attempted, evs[i]), successCount |-> acc.successCount]
    ELSE InsertFrom(evs, inserted, i + 1,
                    [attempted    |-> Append(acc.attempted, evs[i]),
                     successCount |-> acc.successCount + 1])

InsertFrom(evs, inserted, i, acc) ==
    IF i > Len(evs) THEN acc
    ELSE InsertFrom(evs, inserted, i + 1,
                    [attempted    |-> Append(acc.attempted, evs[i]),
                     successCount |-> IF inserted[i] THEN acc.successCount + 1
                                      ELSE acc.successCount])

\* insertTransitEvents(events) for up to MaxBatch legs, each a leg to
\* 456 Main St or a return-home leg from there, the sink taking or refusing
\* each
ApplyInsertTransitEvents ==
    /\ applied.fn = ""
    /\ \E n \in 0..MaxBatch :
          \E which \in [1..n -> {"forward", "return"}], inserted \in [1..n -> BOOLEAN] :
              LET legs == [k \in 1..n |->
                              IF which[k] = "forward"
                              THEN CreateTransitEvent(Route(25, "transit"), HomeAddress,
                                       <<"H","o","m","e">>, MainAddress,
                                       ParseDateTime([date |-> 1, hour |-> 10, minute |-> 0]),
                                       "11", "", <<>>)
                              ELSE CreateReturnHomeEvent(Route(20, "transit"), MainAddress,
                                       GetLocationName(MainAddress), HomeAddress,
                                       ParseDateTime([date |-> 1, hour |-> 11, minute |-> 0]),
                                       "11", "", <<>>)]
              IN  applied' = [fn       |-> "insertTransitEvents",
                              events   |-> legs,
                              inserted |-> inserted,
                              out      |-> InsertFrom(legs, inserted, 1,
                                               [attempted |-> <<>>, successCount |-> 0])]
    /\ UNCHANGED << engineVars, call >>

\* groupEventsByDay(events) for up to MaxGrouped events, in any order, of:
\* a meeting on day 1, a meeting on day 2, an all-day event of day 1, an
\* event with no start at all, and an event with a precise start on day 2
\* and a date-only start of day 1
ApplyGroupEventsByDay ==
    /\ applied.fn = ""
    /\ \E n \in 0..MaxGrouped :
          \E order \in [1..n -> 1..5] :
              /\ \A a, b \in 1..n : a # b => order[a] # order[b]
              /\ LET pool == << EventPool[3],
                                EventPool[7],
                                AllDayEvent(40, <<"F","a","i","r">>, OakAddress, 1, 2),
                                [EventPool[5] EXCEPT !.start.dateTime = <<>>],
                                [EventPool[8] EXCEPT !.start.date = <<1>>] >>
                 IN  applied' = [fn     |-> "groupEventsByDay",
                                 events |-> [k \in 1..n |-> pool[order[k]]],
                                 out    |-> GroupEventsByDay([k \in 1..n |-> pool[order[k]]])]
    /\ UNCHANGED << engineVars, call >>

\* detectTripDates(events, homeAirports) for up to MaxTripEvents events of:
\* a hotel stay from day 1 to day 3, a HOTEL stay that ends the day it
\* starts, a meeting at a hotel on day 2 (precise timestamps), a flight from
\* JFK on day 2, a flight from LAX on day 1 and a lunch at JFK on day 1; the
\* home airports are the default ones or "LAX"
ApplyDetectTripDates ==
    /\ applied.fn = ""
    /\ \E picked \in {T \in SUBSET (1..6) : Cardinality(T) <= MaxTripEvents},
          homeAirports \in {DEFAULT_HOME_AIRPORTS, << <<"L","A","X">> >>} :
          LET pool == << AllDayEvent(50, <<"H","o","t","e","l">>, InnAddress, 1, 3),
                         AllDayEvent(51, <<"H","O","T","E","L">>, InnAddress, 2, 2),
                         TimedEvent(52, <<"a","t"," ","h","o","t","e","l">>, InnAddress, "",
                                    2, 10, 0, 11, 0),
                         TimedEvent(53, <<"F","l","i","g","h","t"," ","t","o"," ","L","A">>,
                                    <<"J","F","K"," ","T","4">>, "", 2, 8, 0, 11, 0),
                         TimedEvent(54, <<"f","l","i","g","h","t"," ","t","o"," ","N","Y">>,
                                    <<"l","a","x">>, "", 1, 8, 0, 11, 0),
                         TimedEvent(55, <<"L","u","n","c","h">>, <<"J","F","K"," ","T","4">>, "",
                                    1, 12, 0, 13, 0) >>
          IN  applied' = [fn           |-> "detectTripDates",
                          events       |-> Pick(pool, picked),
                          homeAirports |-> homeAirports,
                          out          |-> DetectTripDates(Pick(pool, picked), homeAirports)]
    /\ UNCHANGED << engineVars, call >>

NextApply ==
    \/ ApplyGetTransitTime
    \/ ApplyIsValidTripDuration
    \/ ApplyOverlapsExistingTransit
    \/ ApplyOverlapBothWays
    \/ ApplyShouldSkipEvent
    \/ ApplyInsertTransitEvents
    \/ ApplyGroupEventsByDay
    \/ ApplyDetectTripDates

SpecApply == InitAtRest /\ [][NextApply]_vars

----------------------------------------------------------------------------
\* Properties of calculateTransitEvents

HomeName == <<"H","o","m","e">>

\* the title of a leg in TRANSIT mode
TransitTitle(from, to) ==
    <<"T","R","A","N","S","I","T",":"," ">> \o from \o <<" ","->"," ">> \o to

Clock(date, hour, minute) == [date |-> date, hour |-> hour, minute |-> minute]

Gap(date, to) == [date |-> date, to |-> to]

LegGapSet == {legGaps[i] : i \in DOMAIN legGaps}

HasEvent(id) == \E i \in DOMAIN events : events[i].id = id

LegStart(leg) == ParseDateTime(leg.start.dateTime)

LegEnd(leg) == ParseDateTime(leg.end.dateTime)

\* the kinds of step taken inside the walk of a day
DayKinds == {"day", "skip", "same", "forward", "return", "end"}

RouteQueryFailed(ex) ==
    \E i \in DOMAIN ex :
        ex[i].travelMode \in {"TRANSIT", "DRIVE"} /\ ex[i].answer.kind = "error"

WalkQueryFailed(ex) ==
    \E i \in DOMAIN ex : ex[i].travelMode = "WALK" /\ ex[i].answer.kind = "error"

AnyQueryFailed(ex) == \E i \in DOMAIN ex : ex[i].answer.kind = "error"

\* The end-to-end scenario has run to its end: home at 123 Home St, one
\* actionable day with an event at 456 Main St 10:00-11:00 and one at
\* 789 Oak Ave 14:00-15:00, the oracle answering transit 25, 25 and 20 min.
EndToEndScenario ==
    /\ pc = "done"
    /\ run = 1
    /\ events = Pick(EventPool, {3, 5})
    /\ settings = BaseSettings
    /\ today = 1
    /\ offNominal = 0

\* C1 (as the code has it): the end-to-end scenario returns exactly 3 legs, in
\* order and all in TRANSIT mode, titled with the whole text before the first
\* comma of each address: "TRANSIT: Home -> 456 Main St",
\* "TRANSIT: 456 Main St -> 789 Oak Ave", "TRANSIT: 789 Oak Ave -> Home"; the
\* first leg ends exactly at 10:00 and the last leg starts exactly at 15:00.
EndToEndThreeLegs ==
    EndToEndScenario =>
        /\ Len(transitEvents) = 3
        /\ transitEvents[1].summary = TransitTitle(HomeName, MainAddress)
        /\ transitEvents[2].summary = TransitTitle(MainAddress, OakAddress)
        /\ transitEvents[3].summary = TransitTitle(OakAddress, HomeName)
        /\ \A i \in 1..3 : transitEvents[i].description.mode = "transit"
        /\ transitEvents[1].end.dateTime = Clock(1, 10, 0)
        /\ transitEvents[3].start.dateTime = Clock(1, 15, 0)

EndToEndReached == EndToEndScenario /\ transitEvents # <<>>

\* C1 as stated: the three legs are titled "TRANSIT: Home -> Main St",
\* "TRANSIT: Main St -> Oak Ave" and "TRANSIT: Oak Ave -> Home".
EndToEndStreetNames ==
    EndToEndScenario =>
        /\ Len(transitEvents) = 3
        /\ transitEvents[1].summary =
               TransitTitle(HomeName, <<"M","a","i","n"," ","S","t">>)
        /\ transitEvents[2].summary =
               TransitTitle(<<"M","a","i","n"," ","S","t">>, <<"O","a","k"," ","A","v","e">>)
        /\ transitEvents[3].summary =
               TransitTitle(<<"O","a","k"," ","A","v","e">>, HomeName)
        /\ \A i \in 1..3 : transitEvents[i].description.mode = "transit"
        /\ transitEvents[1].end.dateTime = Clock(1, 10, 0)
        /\ transitEvents[3].start.dateTime = Clock(1, 15, 0)

\* C2: when the gap to a non-skipped event at another location is rejected
\* (no route, invalid duration, overlap, or a caught oracle error) no leg is
\* appended, yet the current location becomes that event's location; skipped
\* events leave it alone, and every request of the next hop, forward or
\* return-home, has the current location as its origin.
RejectedGapAdvances ==
    [][ /\ (pc = "events" /\ step'.kind = "forward" /\ step'.outcome # "created") =>
               /\ transitEvents' = transitEvents
               /\ previousLocation' = dayEvents[eventIdx].location
        /\ (pc = "events" /\ step'.kind = "skip") =>
               previousLocation' = previousLocation
        /\ (pc = "events" /\ step'.kind \in {"forward", "return"}) =>
               \A i \in DOMAIN exchanges' :
                   exchanges'[i].origin = Trim(previousLocation)
      ]_vars

\* the hop after the rejected gap to 456 Main St departs from 456 Main St
RejectedGapThenHop ==
    /\ step.kind \in {"forward", "return"}
    /\ step.date = 1
    /\ step.origin = MainAddress
    /\ Gap(1, 3) \notin LegGapSet
    /\ exchanges # <<>>
    /\ exchanges[1].origin = MainAddress

\* C3: for a non-skipped event at the current location (case and surrounding
\* whitespace ignored) no oracle query is issued and no leg is synthesized,
\* the current address stays the same location, and the last-known event end
\* becomes this event's end; skipped events leave that end alone, and it is
\* the departure time of the requests of the next hop.
SameLocationKeepsPlace ==
    [][ /\ (pc = "events" /\ step'.kind = "same") =>
               /\ exchanges' = <<>>
               /\ transitEvents' = transitEvents
               /\ IsSameLocation(previousLocation', previousLocation)
               /\ previousEventEnd' =
                      <<ParseDateTime(dayEvents[eventIdx].end.dateTime[1])>>
        /\ (pc = "events" /\ step'.kind = "skip") =>
               previousEventEnd' = previousEventEnd
        /\ (pc = "events" /\ step'.kind = "forward" /\ Has(previousEventEnd)) =>
               \A i \in DOMAIN exchanges' :
                   exchanges'[i].travelMode \in {"TRANSIT", "DRIVE"} =>
                       exchanges'[i].departureTime = previousEventEnd
      ]_vars

\* after 456 Main St and then " 456 MAIN ST " until 13:00, the hop to
\* 789 Oak Ave departs at 13:00
HopAfterSameLocation ==
    /\ HasEvent(3)
    /\ step.kind = "forward"
    /\ step.eventId = 5
    /\ step.origin = MainAddressShouted
    /\ exchanges # <<>>
    /\ exchanges[1].departureTime = <<ParseDateTime(Clock(1, 13, 0))>>

\* C4: on a processed day a return-home leg is attempted at most once, only
\* once all of the day's events have been walked and only if the current
\* location then differs from the home address; a day that ends at home gets
\* no return-home query and no return-home leg.  An attempt queries the
\* oracle for the way home, and a leg it yields has a validated duration,
\* starts at the last event's end and overlaps no transit-tagged event.
ReturnHomeAtMostOnce ==
    [][ /\ returnAttempts' <= 1
        /\ (pc = "events" /\ step'.kind = "return") =>
               /\ eventIdx > Len(dayEvents)
               /\ ~IsSameLocation(previousLocation, settings.homeAddress)
               /\ returnAttempts = 0
               /\ exchanges' # <<>>
               /\ \A i \in DOMAIN exchanges' :
                      exchanges'[i].destination = Trim(settings.homeAddress)
               /\ Len(transitEvents') <= Len(transitEvents) + 1
               /\ transitEvents' # transitEvents =>
                      /\ \E i \in DOMAIN exchanges' : exchanges'[i].answer.kind = "route"
                      /\ LegStart(transitEvents'[Len(transitEvents')]) =
                             ParseDateTime(LastEvent(dayEvents)[1].end.dateTime[1])
                      /\ LegEnd(transitEvents'[Len(transitEvents')])
                             - LegStart(transitEvents'[Len(transitEvents')])
                             \in MIN_TRIP_MINUTES..MAX_TRANSIT_MINUTES
                      /\ ~OverlapsExistingTransit(
                             LegStart(transitEvents'[Len(transitEvents')]),
                             LegEnd(transitEvents'[Len(transitEvents')]),
                             events, settings.transitColorId)
        /\ (/\ pc = "events"
            /\ pc' = "dates"
            /\ IsSameLocation(previousLocation, settings.homeAddress)) =>
               /\ step'.kind = "end"
               /\ exchanges' = <<>>
               /\ transitEvents' = transitEvents
      ]_vars

\* day 1 got its return-home leg and day 2, whose only event is at home,
\* ended without an attempt
ReturnLegThenDayEndingAtHome ==
    /\ Gap(1, 0) \in LegGapSet
    /\ step.kind = "end"
    /\ step.date = 2
    /\ HasEvent(8)
    /\ IsSameLocation(step.origin, settings.homeAddress)
    /\ returnAttempts = 0

\* C5: every processed day starts at the home address, named "Home", with no
\* last-known event end, whatever the previous day left behind; its first hop
\* asks for a route from the home address, departing an hour before the
\* event; and the end of a day, whatever its outcome, leads on to the next
\* date.
DayStartsFresh ==
    [][ /\ (pc = "dates" /\ step'.kind = "day") =>
               /\ previousLocation' = settings.homeAddress
               /\ previousLocationName' = HomeName
               /\ previousEventEnd' = <<>>
        /\ (pc = "events" /\ step.kind = "day" /\ step'.kind = "forward") =>
               \A i \in DOMAIN exchanges' :
                   /\ exchanges'[i].origin = Trim(settings.homeAddress)
                   /\ exchanges'[i].travelMode \in {"TRANSIT", "DRIVE"} =>
                          exchanges'[i].departureTime =
                              <<ParseDateTime(dayEvents[eventIdx].start.dateTime[1]) - 60>>
        /\ (pc = "events" /\ pc' = "dates") => dateIdx' = dateIdx + 1
      ]_vars

\* day 2 starts after the return-home query of day 1 failed
DayAfterFailedReturn ==
    /\ step.kind = "day"
    /\ step.date = 2
    /\ Gap(1, 0) \in errorGaps
    /\ previousLocation = settings.homeAddress
    /\ previousEventEnd = <<>>

\* C6: no leg, forward or return-home, comes from the events grouped on a
\* date of the run's trip-date set, and the walk of a day is never entered
\* for such a date.
TripDatesYieldNoLeg ==
    /\ \A i \in DOMAIN legGaps : legGaps[i].date \notin tripDates
    /\ step.kind \in DayKinds => step.date \notin tripDates

\* date 1 is a trip date with an event at 456 Main St on it, and the run
\* ends with a leg for date 2 only
TripDaySkippedOtherDayWalked ==
    /\ pc = "done"
    /\ 1 \in tripDates
    /\ HasEvent(3)
    /\ Gap(2, 7) \in LegGapSet

\* C7: no leg is synthesized and no oracle query is issued for the events
\* grouped on a date before today, and the walk of a day is never entered for
\* such a date; the trip-date set is still derived from all the events, those
\* of past dates included.
PastDatesYieldNoLeg ==
    /\ \A i \in DOMAIN legGaps : legGaps[i].date >= today
    /\ step.kind \in DayKinds => step.date >= today
    /\ exchanges # <<>> => step.date >= today
    /\ (pc # "start" /\ settings.detectTrips) =>
           tripDates = DetectTripDates(events, settings.homeAirports)

\* date 1 is past and passed over, with an event at 456 Main St on it, and
\* is in the trip-date set by the stay that starts on it
PastDateSkipped ==
    /\ step.kind = "past"
    /\ step.date = 1
    /\ today = 2
    /\ HasEvent(3)
    /\ 1 \in tripDates

\* how far the run has got: every step of the engine moves it on, and the
\* number of dates and events bounds it
Position ==
    CASE pc = "start"  -> 0
      [] pc = "dates"  -> 1 + (dateIdx - 1) * (Len(events) + 3)
      [] pc = "events" -> 1 + (dateIdx - 1) * (Len(events) + 3) + eventIdx
      [] pc = "done"   -> 2 + Len(sortedDates) * (Len(events) + 3)
      [] pc = "failed" -> 0

\* C8 (as the code has it): an oracle error never makes the run fail: no
\* error leaves the engine uncaught, and every step moves the run on towards
\* its end, which the number of dates and events bounds, whatever queries
\* fail.  A gap whose route query
\* (transit or driving) fails yields no leg, and the walk moves on to the
\* next event or the next date.  A failure of the walking query is absorbed
\* by the duration validation, which keeps the driving candidate, so that
\* gap can still yield a leg.
OracleErrorsNeverAbort ==
    /\ [](pc # "failed")
    /\ [](Position <= 2 + Len(sortedDates) * (Len(events) + 3))
    /\ [][ Position' > Position ]_vars
    /\ [][ RouteQueryFailed(exchanges') =>
               /\ transitEvents' = transitEvents
               /\ step'.outcome = "API error"
               /\ \/ pc' = "events" /\ eventIdx' = eventIdx + 1
                  \/ pc' = "dates" /\ dateIdx' = dateIdx + 1
         ]_vars
    /\ [][ (WalkQueryFailed(exchanges') /\ ~RouteQueryFailed(exchanges')) =>
               /\ step'.outcome \in {"created", "overlaps existing transit"}
               /\ step'.outcome = "created" =>
                      transitEvents'[Len(transitEvents')].description.mode = "driving"
         ]_vars

\* a leg is created for a gap after the route query of an earlier gap failed
LegAfterFailedGap ==
    /\ errorGaps # {}
    /\ step.outcome = "created"
    /\ Gap(step.date, step.eventId) \notin errorGaps

\* C8 as stated: whichever oracle query of a gap raises the error, that gap
\* yields no leg.
FailingGapYieldsNoLeg ==
    [][ AnyQueryFailed(exchanges') => transitEvents' = transitEvents ]_vars

\* C9: no returned leg has a span that intersects, by the half-open rule,
\* the span of an input event that carries the transit tag and has precise
\* start and end timestamps.
NoLegOverlapsTaggedEvent ==
    \A i \in DOMAIN transitEvents :
        \A j \in DOMAIN events :
            (/\ events[j].colorId = settings.transitColorId
             /\ Has(events[j].start.dateTime)
             /\ Has(events[j].end.dateTime)) =>
                ~(/\ LegStart(transitEvents[i]) < ParseDateTime(events[j].end.dateTime[1])
                  /\ LegEnd(transitEvents[i]) > ParseDateTime(events[j].start.dateTime[1]))

\* with a transit-tagged event 09:30-10:00, the candidate leg 09:40-10:00 to
\* the event at 10:00 is rejected as overlapping
CandidateOverlapsTaggedEvent ==
    /\ HasEvent(2)
    /\ step.kind = "forward"
    /\ step.eventId = 3
    /\ step.outcome = "overlaps existing transit"
    /\ exchanges # <<>>
    /\ exchanges[1].answer = RouteAnswer(1200)
    /\ Gap(1, 3) \notin LegGapSet

\* C10: when the legs of one run are added to the event list and the engine
\* is run again with the same settings and date, the second run synthesizes
\* no leg for a gap that received a leg in the first run, whatever the oracle
\* answers the second time.
RerunDuplicatesNoLeg ==
    run = 2 => \A i \in DOMAIN legGaps : legGaps[i] \notin firstRun

\* in the second run the oracle gives another duration for a gap that has its
\* leg already, and the candidate is rejected as overlapping
RerunCandidateRejected ==
    /\ run = 2
    /\ step.kind \in {"forward", "return"}
    /\ Gap(step.date, step.eventId) \in firstRun
    /\ step.outcome = "overlaps existing transit"
    /\ exchanges # <<>>
    /\ exchanges[1].answer.kind = "route"
    /\ exchanges[1].answer.seconds \notin {1200, 1500}

\* the last leg of a list of legs
LastLeg(legs) == legs[Len(legs)]

\* the minutes of the routes that the oracle gave for the requests ex of
\* these travel modes
AnsweredMinutes(ex, travelModes) ==
    {ToMinutes(ex[i].answer.seconds) :
        i \in {j \in DOMAIN ex : /\ ex[j].travelMode \in travelModes
                                  /\ ex[j].answer.kind = "route"}}

\* the leg lasts as long as the route it was made for: the walking route of
\* a walking leg, otherwise a transit or driving route
LastsAsAnswered(leg, ex) ==
    /\ leg.description.minutes = LegEnd(leg) - LegStart(leg)
    /\ IF leg.description.mode = "walking"
       THEN leg.description.minutes \in AnsweredMinutes(ex, {"WALK"})
       ELSE leg.description.minutes \in AnsweredMinutes(ex, {"TRANSIT", "DRIVE"})

\* C11: every forward leg ends exactly at the start of the event it leads to
\* and starts its effective duration before (the walking minutes when a
\* walking leg was substituted, otherwise the minutes of the oracle's route);
\* every return-home leg starts exactly at the end of the day's last
\* processed event and ends its effective duration later.
LegsAnchoredToEvents ==
    [][ /\ (pc = "events" /\ step'.kind = "forward" /\ step'.outcome = "created") =>
               /\ LegEnd(LastLeg(transitEvents')) =
                      ParseDateTime(dayEvents[eventIdx].start.dateTime[1])
               /\ LastsAsAnswered(LastLeg(transitEvents'), exchanges')
        /\ (pc = "events" /\ step'.kind = "return" /\ step'.outcome = "created") =>
               /\ <<LegStart(LastLeg(transitEvents'))>> = previousEventEnd
               /\ LegStart(LastLeg(transitEvents')) =
                      ParseDateTime(LastEvent(dayEvents)[1].end.dateTime[1])
               /\ LastsAsAnswered(LastLeg(transitEvents'), exchanges')
      ]_vars

\* a walking leg of 9 minutes to the event at 10:00 replaces the route of
\* 7 minutes, and a return-home leg follows the day's last event
WalkingLegAndReturnLeg ==
    /\ step.kind = "return"
    /\ step.outcome = "created"
    /\ Len(transitEvents) >= 2
    /\ transitEvents[1].description.mode = "walking"
    /\ transitEvents[1].description.minutes = 9
    /\ transitEvents[1].end.dateTime = Clock(1, 10, 0)

\* C12: every synthesized event carries the transit tag of the settings as
\* its category tag, and its location is the origin of the leg: the current
\* location that the walk held just before the hop, which is the home address
\* for the first hop of a day.
LegsTaggedAndLocatedAtOrigin ==
    [][ /\ \A i \in DOMAIN transitEvents' :
               transitEvents'[i].colorId = settings'.transitColorId
        /\ (/\ pc = "events"
            /\ step'.kind \in {"forward", "return"}
            /\ step'.outcome = "created") =>
               /\ LastLeg(transitEvents').location = previousLocation
               /\ LastLeg(transitEvents').location = step'.origin
               /\ step.kind = "day" =>
                      LastLeg(transitEvents').location = settings.homeAddress
      ]_vars

\* the first leg of the day is located at the home address, and the leg to
\* 789 Oak Ave just made is located at 456 Main St, where the walk stood
LegLocatedAtPreviousEvent ==
    /\ step.kind = "forward"
    /\ step.outcome = "created"
    /\ step.eventId = 5
    /\ Len(transitEvents) = 2
    /\ transitEvents[1].location = HomeAddress
    /\ transitEvents[2].location = MainAddress
    /\ transitEvents[2].colorId = "11"

----------------------------------------------------------------------------
\* Properties of callRoutesApi

\* the bodies of a successful response that hold no usable route
NoRouteBodies == {"noRoutes", "emptyRoutes", "noDuration"}

\* C13: a call tells its two non-success outcomes apart: a successful
\* response without a route, or with a route without a duration, yields none
\* and never an error; a response with a non-OK status, a network failure and
\* a timeout each yield a RoutesApiError and never none.
OutcomesDistinguished ==
    call.pc = "done" =>
        /\ (Ok(call.status) /\ call.body.kind \in NoRouteBodies) =>
               call.result.kind = "none"
        /\ (call.status # 0 /\ ~Ok(call.status)) => call.result.kind = "error"
        /\ call.failure \in {"network", "timeout"} => call.result.kind = "error"
        /\ call.result.kind = "none" =>
               /\ Ok(call.status)
               /\ call.failure = ""
               /\ call.body.kind \in NoRouteBodies

\* a response of status 200 whose first route has no duration gave none
NoneForRouteWithoutDuration ==
    /\ call.pc = "done"
    /\ call.status = 200
    /\ call.body.kind = "noDuration"
    /\ call.result.kind = "none"

\* C14 as stated: every RoutesApiError is classified by its cause: a network
\* error and a timeout are transient, a response of status 5xx is transient,
\* and a response of status 4xx yields an error that is not transient and
\* carries the status code, whatever the body of the response.
ErrorsClassifiedByCause ==
    call.pc = "done" =>
        /\ call.failure \in {"network", "timeout"} =>
               call.result.kind = "error" /\ call.result.isTransient
        /\ call.status \in 500..599 =>
               call.result.kind = "error" /\ call.result.isTransient
        /\ call.status \in 400..499 =>
               /\ call.result.kind = "error"
               /\ ~call.result.isTransient
               /\ call.result.statusCode = call.status

\* C15 as stated: a call whose oracle has stalled, at whatever stage, is
\* ended by the timeout: the timer can still fire.
StalledCallTimesOut ==
    (call.pc \in {"fetch", "body", "errorBody"} /\ call.oracle = "stalled") =>
        ENABLED TimerFires

----------------------------------------------------------------------------
\* Properties of getTransitTime and isValidTripDuration

\* the travel modes of the requests sent, in their order
ModesSent(sent) == [i \in DOMAIN sent |-> sent[i].travelMode]

\* getTransitTime was applied, not forced to drive, to addresses that are valid
TransitPreferred ==
    /\ applied.fn = "getTransitTime"
    /\ ~applied.forceDrive
    /\ ValidateAddress(applied.origin) # <<>>

\* C16: when not forced to drive, getTransitTime asks for transit first, and
\* if the transit duration, rounded up to minutes, is at most 80 it returns
\* that transit result without asking for driving.
TransitWithinThresholdAccepted ==
    TransitPreferred =>
        /\ ModesSent(applied.out.sent)[1] = "TRANSIT"
        /\ (/\ applied.transit.kind = "route"
            /\ ToMinutes(applied.transit.seconds) <= 80) =>
               /\ applied.out.result = Route(ToMinutes(applied.transit.seconds), "transit")
               /\ ModesSent(applied.out.sent) = <<"TRANSIT">>

\* transit of 4741 seconds is 80 minutes and is returned, though driving
\* would take 25 minutes
EightyMinutesOfTransitAccepted ==
    /\ TransitPreferred
    /\ applied.transit = RouteAnswer(4741)
    /\ applied.drive = RouteAnswer(1500)
    /\ applied.out.result = Route(80, "transit")

\* C17: when not forced to drive and the transit duration exceeds 80
\* minutes, getTransitTime also asks for driving and returns driving only if
\* it is strictly faster in minutes than transit; on a tie, or when driving
\* has no route, it returns the transit result.
SlowTransitComparedWithDriving ==
    (/\ TransitPreferred
     /\ applied.transit.kind = "route"
     /\ ToMinutes(applied.transit.seconds) > 80) =>
        /\ ModesSent(applied.out.sent) = <<"TRANSIT", "DRIVE">>
        /\ (/\ applied.drive.kind = "route"
            /\ ToMinutes(applied.drive.seconds) < ToMinutes(applied.transit.seconds)) =>
               applied.out.result = Route(ToMinutes(applied.drive.seconds), "driving")
        /\ (\/ applied.drive.kind = "none"
            \/ /\ applied.drive.kind = "route"
               /\ ToMinutes(applied.drive.seconds) >= ToMinutes(applied.transit.seconds)) =>
               applied.out.result = Route(ToMinutes(applied.transit.seconds), "transit")

\* transit of 5100 seconds and driving of 5041 seconds are both 85 minutes:
\* the tie goes to transit
TieGoesToTransit ==
    /\ TransitPreferred
    /\ applied.transit = RouteAnswer(5100)
    /\ applied.drive = RouteAnswer(5041)
    /\ applied.out.result = Route(85, "transit")

\* C18: when not forced to drive and transit has no route, getTransitTime
\* asks for driving as the only fallback and returns its result with mode
\* driving, or none when driving has no route either.
NoTransitFallsBackToDriving ==
    (TransitPreferred /\ applied.transit.kind = "none") =>
        /\ ModesSent(applied.out.sent) = <<"TRANSIT", "DRIVE">>
        /\ applied.drive.kind = "route" =>
               applied.out.result = Route(ToMinutes(applied.drive.seconds), "driving")
        /\ applied.drive.kind = "none" => applied.out.result = NoRoute

\* transit has no route and driving takes 25 minutes
DrivingReturnedForNoTransit ==
    /\ TransitPreferred
    /\ applied.transit = NoRouteAnswer
    /\ applied.drive = RouteAnswer(1500)
    /\ applied.out.result = Route(25, "driving")

\* C20: isValidTripDuration rejects every candidate outside the floor of 4
\* and the ceiling of 180 minutes without asking for a walking time: above
\* 180 minutes (185, say) the reason is "too long", below 4 minutes (3, say)
\* it is "too short"; a candidate of 4 or of 180 minutes is not rejected so.
OutOfRangeRejectedUnasked ==
    applied.fn = "isValidTripDuration" =>
        /\ applied.driveDurationMin > 180 =>
               /\ ~applied.out.valid
               /\ applied.out.reason = "too long"
               /\ applied.out.sent = <<>>
        /\ applied.driveDurationMin < 4 =>
               /\ ~applied.out.valid
               /\ applied.out.reason = "too short"
               /\ applied.out.sent = <<>>
        /\ applied.driveDurationMin \in 4..180 =>
               applied.out.reason \notin {"too long", "too short"}

\* a candidate of 3 minutes is rejected as too short though a walk of 9
\* minutes could be had
ThreeMinutesRejected ==
    /\ applied.fn = "isValidTripDuration"
    /\ applied.driveDurationMin = 3
    /\ applied.walk = RouteAnswer(540)
    /\ applied.lowTransitLocations = <<>>
    /\ ~applied.out.valid
    /\ applied.out.reason = "too short"

----------------------------------------------------------------------------
\* Properties of calculateTransitEvents: low-transit locations

\* the address holds one of the patterns, whatever the case of the letters
MatchesLowTransit(address) ==
    \E p \in DOMAIN settings.lowTransitLocations :
        Includes(ToLowerCase(address), ToLowerCase(settings.lowTransitLocations[p]))

\* C19: for every gap, forward or return-home, whose origin or destination
\* matches a low-transit pattern, only driving requests are sent to the
\* oracle, never a transit and never a walking request, and a leg made for
\* the gap is a DRIVE leg.
LowTransitGapsDriveOnly ==
    [][ (/\ pc = "events"
         /\ step'.kind \in {"forward", "return"}
         /\ \/ MatchesLowTransit(previousLocation)
            \/ MatchesLowTransit(IF step'.kind = "forward"
                                 THEN dayEvents[eventIdx].location
                                 ELSE settings.homeAddress)) =>
            /\ \A i \in DOMAIN exchanges' : exchanges'[i].travelMode = "DRIVE"
            /\ step'.outcome = "created" =>
                   /\ LastLeg(transitEvents').description.mode = "driving"
                   /\ SubSeq(LastLeg(transitEvents').summary, 1, 6) =
                          <<"D","R","I","V","E",":">>
      ]_vars

\* with the pattern "Oak", the legs to 789 Oak Ave and from there back home
\* are DRIVE legs, made from driving requests alone
DriveLegsAroundOakAve ==
    /\ settings.lowTransitLocations # <<>>
    /\ step.kind = "return"
    /\ step.outcome = "created"
    /\ step.origin = OakAddress
    /\ Len(exchanges) = 1
    /\ exchanges[1].travelMode = "DRIVE"
    /\ Len(transitEvents) = 2
    /\ transitEvents[1].description.mode = "driving"
    /\ transitEvents[2].description.mode = "driving"

----------------------------------------------------------------------------
\* Properties of isValidTripDuration: the tiers of the policy

TwelveMinutesWalkOfNine ==
    /\ applied.fn = "isValidTripDuration"
    /\ applied.driveDurationMin = 12
    /\ applied.origin = MainAddress
    /\ applied.destination = OakAddress
    /\ applied.lowTransitLocations = <<>>
    /\ applied.walk = RouteAnswer(540)

\* C22: for a candidate of 12 minutes from 456 Main St to 789 Oak Ave, no
\* low-transit pattern given and the walking query answering 9 minutes, the
\* candidate is accepted as it is: the result has no mode and no walking
\* minutes, and the walking query is not made.
TwelveMinutesAcceptedAsIs ==
    TwelveMinutesWalkOfNine =>
        /\ applied.out.valid
        /\ applied.out.mode = ""
        /\ applied.out.walkMinutes = <<>>
        /\ ~Asked(applied.out.sent, "WALK")

\* a transit route of 12 minutes from 456 Main St to 789 Oak Ave stays a
\* TRANSIT leg from 9:48 to 10:00
TwelveMinutesOfTransitKept ==
    /\ TwelveMinutesWalkOfNine
    /\ applied.mode = "transit"
    /\ applied.out.valid
    /\ applied.leg[1].description.mode = "transit"
    /\ applied.leg[1].start.dateTime = Clock(1, 9, 48)
    /\ applied.leg[1].end.dateTime = Clock(1, 10, 0)

\* C22 as stated: the result is an acceptance with mode walk and 9 walking
\* minutes
TwelveMinutesBecomeWalk ==
    TwelveMinutesWalkOfNine =>
        /\ applied.out.valid
        /\ applied.out.mode = "walk"
        /\ applied.out.walkMinutes = <<9>>

\* isValidTripDuration was applied to a candidate of the short-trip zone, at
\* least 4 and less than 10 minutes, neither endpoint matching a low-transit
\* pattern
ShortTripApplied ==
    /\ applied.fn = "isValidTripDuration"
    /\ applied.driveDurationMin >= 4
    /\ applied.driveDurationMin < 10
    /\ ~IsLowTransitLocation(applied.origin, applied.lowTransitLocations)
    /\ ~IsLowTransitLocation(applied.destination, applied.lowTransitLocations)

\* the walking minutes the oracle answers
WalkMinutes == ToMinutes(applied.walk.seconds)

\* the leg is in this mode and lasts this long, up to 10:00
LegIs(prefix, mode, minutes) ==
    /\ Len(applied.leg) = 1
    /\ SubSeq(applied.leg[1].summary, 1, Len(prefix)) = prefix
    /\ applied.leg[1].description.mode = mode
    /\ applied.leg[1].description.minutes = minutes
    /\ ParseDateTime(applied.leg[1].start.dateTime)
           = ParseDateTime(Clock(1, 10, 0)) - minutes
    /\ applied.leg[1].end.dateTime = Clock(1, 10, 0)

\* C23: for a candidate of the short-trip zone with no low-transit
\* endpoint, exactly one walking request is sent for the same endpoints.
\* With no walking route, or a walk of more than 15 minutes, the candidate is
\* accepted as a drive and the leg keeps the candidate's minutes; with a walk
\* of 4 to 15 minutes it is accepted as a walk whose minutes replace the
\* candidate's in the leg; with a walk of less than 4 minutes it is rejected
\* as too short to track and no leg is made.
ShortTripJudgedByWalk ==
    ShortTripApplied =>
        /\ ModesSent(applied.out.sent) = <<"WALK">>
        /\ applied.out.sent[1].origin = applied.origin
        /\ applied.out.sent[1].destination = applied.destination
        /\ (applied.walk.kind = "none"
              \/ (applied.walk.kind = "route" /\ WalkMinutes > 15)) =>
               /\ applied.out = Valid("drive", <<>>, applied.out.sent)
               /\ LegIs(<<"D","R","I","V","E",":">>, "driving", applied.driveDurationMin)
        /\ (applied.walk.kind = "route" /\ WalkMinutes \in 4..15) =>
               /\ applied.out = Valid("walk", <<WalkMinutes>>, applied.out.sent)
               /\ LegIs(<<"W","A","L","K",":">>, "walking", WalkMinutes)
        /\ (applied.walk.kind = "route" /\ WalkMinutes < 4) =>
               /\ applied.out = Invalid("too short to track", applied.out.sent)
               /\ applied.leg = <<>>

\* a transit route of 9 minutes that can be walked in exactly 15: the leg is
\* a WALK leg from 9:45
NineMinutesWalkedInFifteen ==
    /\ ShortTripApplied
    /\ applied.driveDurationMin = 9
    /\ applied.mode = "transit"
    /\ applied.walk = RouteAnswer(900)
    /\ applied.out.mode = "walk"
    /\ applied.leg[1].start.dateTime = Clock(1, 9, 45)

----------------------------------------------------------------------------
\* Properties of calculateTransitEvents: the walking query of a gap fails

\* C24: when the walking query of a gap, forward or return-home, raises an
\* oracle error, the candidate is accepted as a drive with the duration of
\* its route: the gap goes on to the overlap check, which alone can still
\* keep the leg from being made, and the leg made is a DRIVE leg that lasts
\* the 4 to 9 minutes the oracle answered for the route.
WalkFailureKeepsDrive ==
    [][ (/\ pc = "events"
         /\ step'.kind \in {"forward", "return"}
         /\ WalkQueryFailed(exchanges')) =>
            /\ exchanges'[Len(exchanges')].travelMode = "WALK"
            /\ step'.outcome \in {"created", "overlaps existing transit"}
            /\ step'.outcome = "overlaps existing transit" =>
                   /\ transitEvents' = transitEvents
                   /\ Len(progress') = 1
                   /\ progress'[1].type = "skip"
                   /\ progress'[1].text = "overlaps existing transit"
            /\ step'.outcome = "created" =>
                   /\ Len(transitEvents') = Len(transitEvents) + 1
                   /\ SubSeq(LastLeg(transitEvents').summary, 1, 6) = <<"D","R","I","V","E",":">>
                   /\ LastLeg(transitEvents').description.mode = "driving"
                   /\ LastLeg(transitEvents').description.minutes \in 4..9
                   /\ LastLeg(transitEvents').description.minutes
                          \in AnsweredMinutes(exchanges', {"TRANSIT", "DRIVE"})
                   /\ LegEnd(LastLeg(transitEvents')) - LegStart(LastLeg(transitEvents'))
                          = LastLeg(transitEvents').description.minutes
                   /\ progress' = << CreateMessage(LastLeg(transitEvents').summary,
                                         LastLeg(transitEvents').description.minutes) >>
      ]_vars

\* the oracle gives a transit route of 7 minutes and fails the walking
\* query: a DRIVE leg of 7 minutes is made
DriveLegAfterWalkFailure ==
    /\ step.kind = "forward"
    /\ step.outcome = "created"
    /\ Len(exchanges) = 2
    /\ exchanges[1].travelMode = "TRANSIT"
    /\ exchanges[1].answer = RouteAnswer(420)
    /\ exchanges[2].travelMode = "WALK"
    /\ exchanges[2].answer = ErrorAnswer
    /\ LastLeg(transitEvents).description.mode = "driving"
    /\ LastLeg(transitEvents).description.minutes = 7

----------------------------------------------------------------------------
\* Properties of overlapsExistingTransit

\* the event given to the run carries the transit colour, has a precise start
\* and a precise end, and its span intersects the candidate's
TaggedEventAcross(event) ==
    /\ event.colorId = "11"
    /\ Has(event.start.dateTime)
    /\ Has(event.end.dateTime)
    /\ applied.start < ParseDateTime(event.end.dateTime[1])
    /\ applied.end > ParseDateTime(event.start.dateTime[1])

\* C25: overlapsExistingTransit answers true exactly when some event given
\* to the run carries the transit tag, has a precise start and a precise end,
\* and has candidateStart < existingEnd and candidateEnd > existingStart.
\* Events without the tag, tagged events without precise timestamps and the
\* legs made earlier in the run have no part in the answer.
OverlapExactlyOnTaggedInput ==
    applied.fn = "overlapsExistingTransit" =>
        (applied.out <=> \E n \in DOMAIN applied.events : TaggedEventAcross(applied.events[n]))

\* the span 9:40-10:00 against an untagged event 9:30-10:00 and a tagged
\* all-day event, a leg 9:30-10:00 having been made earlier in the run:
\* nothing overlaps
OnlyUntaggedAndOwnLegsAcross ==
    /\ applied.fn = "overlapsExistingTransit"
    /\ applied.start = ParseDateTime(Clock(1, 9, 40))
    /\ applied.end = ParseDateTime(Clock(1, 10, 0))
    /\ Len(applied.events) = 2
    /\ applied.events[1].colorId = ""
    /\ applied.events[1].start.dateTime = <<Clock(1, 9, 30)>>
    /\ applied.events[2].colorId = "11"
    /\ applied.events[2].start.dateTime = <<>>
    /\ Len(applied.transitEvents) = 1
    /\ applied.transitEvents[1].colorId = "11"
    /\ applied.transitEvents[1].start.dateTime = Clock(1, 9, 30)
    /\ ~applied.out

\* the instant of span time i
SpanInstant(i) == ParseDateTime(Clock(1, SpanTimes[i][1], SpanTimes[i][2]))

\* C26: the overlap test is symmetric: span a tested against a transit
\* event over span b answers as span b tested against a transit event over
\* span a; and it answers false for two spans that share only a boundary
\* instant, one ending exactly when the other starts.
OverlapSymmetricAndHalfOpen ==
    applied.fn = "overlapBothWays" =>
        /\ applied.ab = applied.ba
        /\ (\/ SpanInstant(applied.a[2]) = SpanInstant(applied.b[1])
            \/ SpanInstant(applied.b[2]) = SpanInstant(applied.a[1])) =>
               (~applied.ab /\ ~applied.ba)
        /\ (/\ SpanInstant(applied.a[1]) < SpanInstant(applied.b[2])
            /\ SpanInstant(applied.b[1]) < SpanInstant(applied.a[2])) => applied.ab

\* 9:00-9:30 and 9:30-10:00 share the instant 9:30 alone and do not overlap,
\* whichever is the candidate
SpansSharingNineThirty ==
    /\ applied.fn = "overlapBothWays"
    /\ applied.a = <<1, 2>>
    /\ applied.b = <<2, 4>>
    /\ ~applied.ab
    /\ ~applied.ba

----------------------------------------------------------------------------
\* Properties of shouldSkipEvent

\* the reasons in the order the filter looks for them
SkipReasons ==
    << "no_location", "already_transit_event", "hold_event", "video_call_conference",
       "video_call_keyword", "overnight_event", "all_day_event" >>

\* whether the event has what the k-th reason stands for
SkipReasonApplies(event, k) ==
    CASE k = 1 -> event.location = <<>>
      [] k = 2 -> event.colorId = "11"
      [] k = 3 -> event.colorId = "8"
      [] k = 4 -> event.conferenceData
      [] k = 5 -> \E n \in DOMAIN VIDEO_CALL_KEYWORDS :
                      Includes(ToLowerCase(event.location), VIDEO_CALL_KEYWORDS[n])
      [] k = 6 -> /\ event.start.dateTime # <<>>
                  /\ event.start.dateTime[1].hour \in 0..5
      [] k = 7 -> event.start.date # <<>> /\ event.start.dateTime = <<>>

\* C27: shouldSkipEvent answers with the first reason that applies, in the
\* order: no location, already a transit event, hold event, video call by
\* conference data, video call by a keyword of the location, overnight event
\* (start hour from 0 to 5), all-day event.  Every event without a location
\* gets the reason no_location.  An event to which no reason applies is not
\* skipped and has the empty reason; a skipped event has exactly one reason of
\* the seven.
FirstReasonInOrderWins ==
    applied.fn = "shouldSkipEvent" =>
        LET hits == {k \in DOMAIN SkipReasons : SkipReasonApplies(applied.event, k)}
        IN  /\ hits = {} => applied.out = [shouldSkip |-> FALSE, reason |-> ""]
            /\ hits # {} => applied.out = [shouldSkip |-> TRUE, reason |-> SkipReasons[MinOf(hits)]]
            /\ applied.event.location = <<>> => applied.out.reason = "no_location"
            /\ applied.out.shouldSkip <=> applied.out.reason \in {SkipReasons[k] : k \in DOMAIN SkipReasons}

\* an event at a meeting link, with conference data, starting at 5:00: of the
\* three reasons that apply, the conference data is the one given
ConferenceBeforeKeywordAndNight ==
    /\ applied.fn = "shouldSkipEvent"
    /\ applied.event.location = ZoomLocation
    /\ applied.event.colorId = ""
    /\ applied.event.conferenceData
    /\ applied.event.start.dateTime = <<Clock(1, 5, 0)>>
    /\ applied.out.reason = "video_call_conference"

\* the event carries the transit colour
TransitTagged == applied.fn = "shouldSkipEvent" /\ applied.event.colorId = "11"

\* C28 (as the code has it): every event with a location that carries the
\* transit colour is skipped as already a transit event, whatever its
\* conference data, its start time and whether it lasts all day; one without
\* a location is skipped for having no location.
TaggedEventsSkippedAsTransit ==
    TransitTagged =>
        /\ applied.out.shouldSkip
        /\ applied.event.location # <<>> => applied.out.reason = "already_transit_event"
        /\ applied.event.location = <<>> => applied.out.reason = "no_location"

\* an all-day event at a meeting link with conference data and the transit
\* colour is skipped as a transit event
TaggedAllDayCallSkippedAsTransit ==
    /\ TransitTagged
    /\ applied.event.location = ZoomLocation
    /\ applied.event.conferenceData
    /\ applied.event.start.dateTime = <<>>
    /\ applied.out.reason = "already_transit_event"

\* C28 as stated: every event that carries the transit colour gets the reason
\* already_transit_event, with or without a location.
TaggedAlwaysAlreadyTransit ==
    TransitTagged => applied.out.reason = "already_transit_event"

----------------------------------------------------------------------------
\* Properties of calculateTransitEvents: addresses that are empty once trimmed

\* the step being taken attempts a gap, forward or return-home, whose origin
\* or destination is empty once trimmed
BlankGapAttempted ==
    /\ pc = "events"
    /\ step'.kind \in {"forward", "return"}
    /\ \/ Trim(previousLocation) = <<>>
       \/ Trim(IF step'.kind = "forward" THEN dayEvents[eventIdx].location
               ELSE settings.homeAddress) = <<>>

\* C29 as stated: when the origin or the destination of a gap is empty once
\* trimmed, no request is sent to the oracle and the run fails with the
\* input-validation error instead of going on as after a skipped leg.
BlankAddressFailsRun ==
    [][ BlankGapAttempted => (exchanges' = <<>> /\ pc' = "failed") ]_vars

\* what the code does instead: no request is sent, nothing is logged, no leg
\* is made and the run goes on to the next event or the next day
BlankAddressPassedInSilence ==
    [][ BlankGapAttempted =>
            /\ exchanges' = <<>>
            /\ progress' = <<>>
            /\ transitEvents' = transitEvents
            /\ step'.outcome = "error swallowed"
            /\ pc' \in {"events", "dates"}
      ]_vars

\* C30 as stated: on every processed day each event of the day and each
\* return-home attempt produces at least one progress message, a skip message
\* with the name and the reason or a create message with the leg made; no gap
\* ends without a leg and without a logged reason.
EveryStepReported ==
    [][ (pc = "events" /\ step'.kind \in {"skip", "same", "forward", "return"}) =>
            /\ progress' # <<>>
            /\ \A n \in DOMAIN progress' :
                   \/ /\ progress'[n].type = "skip"
                      /\ progress'[n].name = (IF step'.kind = "return" THEN ReturnLabel
                                              ELSE EventName(dayEvents[eventIdx]))
                      /\ progress'[n].text # ""
                   \/ /\ progress'[n].type = "create"
                      /\ transitEvents' # transitEvents
                      /\ progress'[n].name = LastLeg(transitEvents').summary
            /\ (step'.kind \in {"forward", "return"} /\ transitEvents' = transitEvents) =>
                   \E n \in DOMAIN progress' : progress'[n].type = "skip"
      ]_vars

----------------------------------------------------------------------------
\* Properties of insertTransitEvents

\* C31: the batch insert attempts every leg of the list, in the order of the
\* list, whichever inserts fail; it returns a count and raises nothing, and
\* the count is exactly the number of inserts that succeeded, from 0 to the
\* length of the list.
BatchInsertCountsSuccesses ==
    applied.fn = "insertTransitEvents" =>
        /\ applied.out.attempted = applied.events
        /\ applied.out.successCount =
               Cardinality({k \in DOMAIN applied.events : applied.inserted[k]})
        /\ applied.out.successCount \in 0..Len(applied.events)

\* of three legs the first is refused and the other two are taken: all three
\* are attempted and the count is 2
TwoOfThreeInserted ==
    /\ applied.fn = "insertTransitEvents"
    /\ applied.inserted = <<FALSE, TRUE, TRUE>>
    /\ Len(applied.out.attempted) = 3
    /\ applied.out.attempted[1] # applied.out.attempted[2]
    /\ applied.out.successCount = 2

----------------------------------------------------------------------------
\* Properties of getTransitTime: the duration of a RouteResult

\* the seconds the oracle answered for the route that getTransitTime returned
SecondsOfReturned ==
    IF applied.out.result.mode = "transit" THEN applied.transit.seconds
    ELSE applied.drive.seconds

\* C32 as stated: every RouteResult that getTransitTime returns has the
\* oracle's seconds rounded up to whole minutes as its duration, and that
\* duration is a positive integer, never 0.
DurationsRoundedUpAndPositive ==
    (applied.fn = "getTransitTime" /\ applied.out.result.kind = "route") =>
        /\ applied.out.result.durationMinutes * 60 >= SecondsOfReturned
        /\ (applied.out.result.durationMinutes - 1) * 60 < SecondsOfReturned
        /\ applied.out.result.durationMinutes >= 1

\* what the code has: the seconds rounded up, which is 0 for 0 seconds
DurationsRoundedUp ==
    (applied.fn = "getTransitTime" /\ applied.out.result.kind = "route") =>
        /\ applied.out.result.durationMinutes * 60 >= SecondsOfReturned
        /\ (applied.out.result.durationMinutes - 1) * 60 < SecondsOfReturned
        /\ applied.out.result.durationMinutes = 0 <=> SecondsOfReturned = 0

----------------------------------------------------------------------------
\* Properties of groupEventsByDay

\* the indices of the events that are in the bucket of date d
InBucket(d) ==
    {i \in DOMAIN applied.events :
        \E k \in DOMAIN applied.out[d] : applied.out[d][k] = applied.events[i]}

\* where an event lies in the list given
PlaceOf(event) == CHOOSE i \in DOMAIN applied.events : applied.events[i] = event

\* C33: groupEventsByDay puts every event with a precise or a date-only
\* start into exactly one bucket, that of the date of its start, the precise
\* start winning when both are there; a bucket keeps its events in the order
\* of the list; an event with neither start is in no bucket; no bucket is
\* empty and no event is in a bucket twice.
EachEventInTheBucketOfItsDay ==
    applied.fn = "groupEventsByDay" =>
        /\ \A i \in DOMAIN applied.events :
               LET start == applied.events[i].start
               IN  /\ start.dateTime # <<>> =>
                          {d \in DOMAIN applied.out : i \in InBucket(d)} = {start.dateTime[1].date}
                   /\ (start.dateTime = <<>> /\ start.date # <<>>) =>
                          {d \in DOMAIN applied.out : i \in InBucket(d)} = {start.date[1]}
                   /\ (start.dateTime = <<>> /\ start.date = <<>>) =>
                          {d \in DOMAIN applied.out : i \in InBucket(d)} = {}
        /\ \A d \in DOMAIN applied.out :
               /\ applied.out[d] # <<>>
               /\ Cardinality(InBucket(d)) = Len(applied.out[d])
               /\ \A a, b \in DOMAIN applied.out[d] :
                      a < b => PlaceOf(applied.out[d][a]) < PlaceOf(applied.out[d][b])

\* an event without a start, the event with both starts and the all-day
\* event of day 1: the second goes to day 2 by its precise start, the third to
\* day 1, the first nowhere
BothStartsGoByThePreciseOne ==
    /\ applied.fn = "groupEventsByDay"
    /\ Len(applied.events) = 3
    /\ applied.events[1].start = [dateTime |-> <<>>, date |-> <<>>]
    /\ applied.events[2].start.date = <<1>>
    /\ applied.events[2].start.dateTime # <<>>
    /\ applied.events[3].start.dateTime = <<>>
    /\ DOMAIN applied.out = {1, 2}
    /\ applied.out[2] = <<applied.events[2]>>
    /\ applied.out[1] = <<applied.events[3]>>

\* the buckets of buckets laid end to end, in the order dates of their dates
RECURSIVE Flattened(_, _)
Flattened(buckets, dates) ==
    IF dates = <<>> THEN <<>>
    ELSE buckets[Head(dates)] \o Flattened(buckets, Tail(dates))

\* the dates of the buckets, latest first
LatestFirst(buckets) ==
    [k \in 1..Cardinality(DOMAIN buckets) |->
        SortedSeq(DOMAIN buckets)[Cardinality(DOMAIN buckets) + 1 - k]]

\* C34: groupEventsByDay is idempotent: grouping the buckets of a grouping,
\* laid end to end in either order of their dates, gives the same buckets
\* with the same events in the same order.
GroupingIsIdempotent ==
    applied.fn = "groupEventsByDay" =>
        /\ GroupEventsByDay(Flattened(applied.out, SortedSeq(DOMAIN applied.out))) = applied.out
        /\ GroupEventsByDay(Flattened(applied.out, LatestFirst(applied.out))) = applied.out

\* the meeting of day 2, the all-day event of day 1 and the meeting of day 1
\* were grouped: laid end to end the buckets are not the list given, and
\* grouping them again gives the two buckets again
RegroupedListDiffers ==
    /\ applied.fn = "groupEventsByDay"
    /\ Len(applied.events) = 3
    /\ DOMAIN applied.out = {1, 2}
    /\ Len(applied.out[1]) = 2
    /\ Flattened(applied.out, <<1, 2>>) # applied.events
    /\ GroupEventsByDay(Flattened(applied.out, <<1, 2>>)) = applied.out

----------------------------------------------------------------------------
\* Properties of detectTripDates

\* the title of the event holds one of the keywords, whatever the case
TitleHolds(event, keywords) ==
    \E k \in DOMAIN keywords : Includes(ToLowerCase(event.summary), keywords[k])

\* the dates from the date-only start of a stay up to, not including, its
\* date-only end
StayRange(event) ==
    IF /\ TitleHolds(event, STAY_KEYWORDS)
       /\ event.start.date # <<>>
       /\ event.end.date # <<>>
    THEN {d \in 0..10 : event.start.date[1] <= d /\ d < event.end.date[1]}
    ELSE {}

\* the event is a flight that leaves from one of the home airports
OutboundFlight(event) ==
    /\ TitleHolds(event, FLIGHT_KEYWORDS)
    /\ \E a \in DOMAIN applied.homeAirports :
           Includes(ToLowerCase(event.location), ToLowerCase(applied.homeAirports[a]))

\* the date of the start of a timed event
DayOf(event) == event.start.dateTime[1].date

AppliedEvents == {applied.events[i] : i \in DOMAIN applied.events}

\* C35: for an event whose title holds a stay keyword and whose start and
\* end are dates, exactly the dates d with startDate <= d < endDate are trip
\* dates on its account: the end date is not, nothing is added when the end
\* date is not after the start date, and nothing for a stay with precise
\* timestamps.
StayAddsDatesBeforeItsEnd ==
    applied.fn = "detectTripDates" =>
        /\ \A e \in AppliedEvents : StayRange(e) \subseteq applied.out
        /\ \A d \in applied.out :
               \/ \E e \in AppliedEvents : d \in StayRange(e)
               \/ \E e \in AppliedEvents : OutboundFlight(e) /\ DayOf(e) = d
        /\ \A e \in AppliedEvents :
               (e.id = 50 /\ ~\E f \in AppliedEvents : OutboundFlight(f)) =>
                   applied.out = {1, 2}

\* the hotel stay from day 1 to day 3 with the stay that ends as it starts:
\* days 1 and 2 are trip dates, day 3 is not
StayOfTwoNights ==
    /\ applied.fn = "detectTripDates"
    /\ Len(applied.events) = 2
    /\ applied.events[1].id = 50
    /\ applied.events[2].id = 51
    /\ applied.out = {1, 2}

\* C36: an event adds the date of its own start to the trip dates as an
\* outbound flight if and only if its title holds a flight keyword and its
\* location holds one of the home airports given, whatever the case of
\* either; the set returned is the union of the dates of the outbound flights
\* and of the dates of the stays.
FlightsFromHomeAddTheirDay ==
    applied.fn = "detectTripDates" =>
        /\ applied.out =
               {DayOf(e) : e \in {f \in AppliedEvents : OutboundFlight(f)}}
                   \cup UNION {StayRange(e) : e \in AppliedEvents}
        /\ \A e \in AppliedEvents :
               (e.start.dateTime # <<>> /\ \A f \in AppliedEvents : DayOf(e) \notin StayRange(f)) =>
                   (DayOf(e) \in applied.out <=>
                        \E f \in AppliedEvents :
                            /\ OutboundFlight(f)
                            /\ DayOf(f) = DayOf(e))

\* with "LAX" as the home airport, the flight from "lax" on day 1 makes day 1
\* a trip date and the flight from JFK on day 2 adds nothing
OnlyTheFlightFromHomeCounts ==
    /\ applied.fn = "detectTripDates"
    /\ applied.homeAirports = << <<"L","A","X">> >>
    /\ Len(applied.events) = 2
    /\ applied.events[1].id = 53
    /\ applied.events[2].id = 54
    /\ applied.out = {1}

----------------------------------------------------------------------------
\* Properties of calculateTransitEvents: the length and the label of a leg

\* C37: every leg of the list returned ends strictly after it starts and
\* lasts from 4 to 180 minutes inclusive; every WALK leg lasts from 4 to 15
\* minutes inclusive.
LegLengthsWithinBounds ==
    \A i \in DOMAIN transitEvents :
        /\ LegEnd(transitEvents[i]) > LegStart(transitEvents[i])
        /\ LegEnd(transitEvents[i]) - LegStart(transitEvents[i]) \in 4..180
        /\ transitEvents[i].description.minutes
               = LegEnd(transitEvents[i]) - LegStart(transitEvents[i])
        /\ (\/ transitEvents[i].description.mode = "walking"
            \/ SubSeq(transitEvents[i].summary, 1, 5) = <<"W","A","L","K",":">>) =>
               LegEnd(transitEvents[i]) - LegStart(transitEvents[i]) \in 4..15

\* the run is over with a WALK leg of 9 minutes and a leg of 20 minutes or
\* more in its list
WalkLegAndLongerLegReturned ==
    /\ pc = "done"
    /\ \E i \in DOMAIN transitEvents :
           /\ transitEvents[i].description.mode = "walking"
           /\ LegEnd(transitEvents[i]) - LegStart(transitEvents[i]) = 9
    /\ \E i \in DOMAIN transitEvents :
           LegEnd(transitEvents[i]) - LegStart(transitEvents[i]) >= 20

\* the validator was applied to a route and the leg was made of its result
LegValidated ==
    /\ applied.fn = "isValidTripDuration"
    /\ Len(applied.leg) = 1

\* the label of the leg: its summary up to the colon
LegLabel ==
    SubSeq(applied.leg[1].summary, 1,
           CHOOSE k \in 0..Len(applied.leg[1].summary) :
               /\ k < Len(applied.leg[1].summary)
               /\ applied.leg[1].summary[k + 1] = ":"
               /\ \A j \in 1..k : applied.leg[1].summary[j] # ":")

\* C38: a leg is labelled TRANSIT only when the accepted route was a transit
\* route of at least 10 minutes; the leg of a candidate of 4 to 9 minutes is
\* labelled DRIVE or WALK, also when the route was a transit route, and the
\* DRIVE leg keeps the minutes of the route.
TransitLabelOnlyFromTenMinutes ==
    LegValidated =>
        /\ LegLabel = <<"T","R","A","N","S","I","T">> =>
               /\ applied.mode = "transit"
               /\ applied.driveDurationMin >= 10
               /\ applied.out.mode = ""
        /\ applied.driveDurationMin \in 4..9 =>
               /\ LegLabel \in {<<"D","R","I","V","E">>, <<"W","A","L","K">>}
               /\ applied.out.mode \in {"drive", "walk"}
               /\ LegLabel = <<"D","R","I","V","E">> =>
                      /\ applied.out.mode = "drive"
                      /\ applied.leg[1].description.mode = "driving"
                      /\ applied.leg[1].description.minutes = applied.driveDurationMin

\* a transit route of 9 minutes between addresses that no walking route
\* joins became a DRIVE leg of 9 minutes
TransitRouteOfNineLabelledDrive ==
    /\ LegValidated
    /\ applied.mode = "transit"
    /\ applied.driveDurationMin = 9
    /\ applied.lowTransitLocations = <<>>
    /\ applied.walk.kind = "none"
    /\ LegLabel = <<"D","R","I","V","E">>
    /\ applied.leg[1].description.minutes = 9

----------------------------------------------------------------------------
\* Properties of calculateTransitEvents: the events that EventFilter skips

\* the event that the walk of the day is at is one that EventFilter skips
AtSkippedEvent ==
    /\ pc = "events"
    /\ eventIdx <= Len(dayEvents)
    /\ ShouldSkipEvent(dayEvents[eventIdx], settings).shouldSkip

\* the events of a day that a return-home leg may be anchored to: the timed
\* ones that EventFilter does not skip and that no such event follows
AnchorsOf(evs) ==
    {i \in 1..Len(evs) :
        /\ Has(evs[i].start.dateTime)
        /\ ~ShouldSkipEvent(evs[i], settings).shouldSkip
        /\ \A j \in (i + 1)..Len(evs) :
               \/ ~Has(evs[j].start.dateTime)
               \/ ShouldSkipEvent(evs[j], settings).shouldSkip}

\* C39: the step over an event that EventFilter skips leaves the current
\* location, its name and the last-known event end as they were, sends no
\* request to the oracle and adds no leg; and the return-home attempt of a
\* day departs (the transit and driving requests, and the leg) at the end of
\* the last timed event that is not skipped, never at the end of a skipped
\* one.
SkippedEventLeavesNoTrace ==
    [][/\ AtSkippedEvent =>
              /\ previousLocation' = previousLocation
              /\ previousLocationName' = previousLocationName
              /\ previousEventEnd' = previousEventEnd
              /\ exchanges' = <<>>
              /\ transitEvents' = transitEvents
              /\ step'.kind = "skip"
              /\ step'.eventId = dayEvents[eventIdx].id
              /\ eventIdx' = eventIdx + 1
       /\ (pc = "events" /\ step'.kind = "return") =>
              \E i \in AnchorsOf(dayEvents) :
                  /\ \A k \in DOMAIN exchanges' :
                         exchanges'[k].travelMode \in {"TRANSIT", "DRIVE"} =>
                             exchanges'[k].departureTime
                                 = <<ParseDateTime(dayEvents[i].end.dateTime[1])>>
                  /\ transitEvents' # transitEvents =>
                         LegStart(LastLeg(transitEvents'))
                             = ParseDateTime(dayEvents[i].end.dateTime[1])
      ]_vars

\* a return-home leg was made for a day whose last timed event is one that
\* EventFilter skips; the leg departs at the end of an earlier event
ReturnLegOfDayEndingWithSkippedEvent ==
    /\ step.kind = "return"
    /\ step.outcome = "created"
    /\ step.date \in DOMAIN byDay
    /\ \E i \in AnchorsOf(byDay[step.date]) :
           /\ LegStart(LastLeg(transitEvents))
                  = ParseDateTime(byDay[step.date][i].end.dateTime[1])
           /\ \E j \in (i + 1)..Len(byDay[step.date]) :
                  /\ Has(byDay[step.date][j].start.dateTime)
                  /\ Has(byDay[step.date][j].end.dateTime)
                  /\ ShouldSkipEvent(byDay[step.date][j], settings).shouldSkip
                  /\ ParseDateTime(byDay[step.date][j].end.dateTime[1])
                         > ParseDateTime(byDay[step.date][i].end.dateTime[1])

----------------------------------------------------------------------------
\* Properties of getTransitTime inside calculateTransitEvents: a failed
\* driving query after a slow transit route

\* the requests ex are a transit request answered by a route of more than
\* 80 minutes, then a driving request that failed with a RoutesApiError
SlowTransitThenFailedDriving(ex) ==
    /\ Len(ex) >= 2
    /\ ex[1].travelMode = "TRANSIT"
    /\ ex[1].answer.kind = "route"
    /\ ToMinutes(ex[1].answer.seconds) > 80
    /\ ex[2].travelMode = "DRIVE"
    /\ ex[2].answer.kind = "error"

\* C40: when the gap is not forced to drive, the transit query gives a route
\* of more than 80 minutes and the driving query that follows fails with a
\* RoutesApiError, getTransitTime fails with that error: nothing more is
\* asked, the transit route is not used, and no leg is made for the gap,
\* which is reported as skipped for an API error.
FailedDrivingDiscardsSlowTransit ==
    [][SlowTransitThenFailedDriving(exchanges') =>
           /\ Len(exchanges') = 2
           /\ exchanges'[2].origin = exchanges'[1].origin
           /\ exchanges'[2].destination = exchanges'[1].destination
           /\ step'.kind \in {"forward", "return"}
           /\ step'.outcome = "API error"
           /\ transitEvents' = transitEvents
           /\ legGaps' = legGaps
      ]_vars

\* transit of 85 minutes to an event, the driving query failed, and the gap
\* has no leg though the event was reached from another place
SlowTransitLostToFailedDriving ==
    /\ SlowTransitThenFailedDriving(exchanges)
    /\ ToMinutes(exchanges[1].answer.seconds) = 85
    /\ step.kind = "forward"
    /\ step.outcome = "API error"
    /\ \A i \in DOMAIN legGaps : legGaps[i] # [date |-> step.date, to |-> step.eventId]

====
